---------------------------- MODULE Spec2Model ----------------------------
(***************************************************************************)
(* Model of the matching engine of connector/matcher.py and of the         *)
(* semantic expansion of connector/semantic_expansion.py.                  *)
(*                                                                         *)
(* Text is modelled by TLA+ strings: a regular-expression search is a      *)
(* substring search over the characters of the text, word boundaries       *)
(* included.  Confidences are held in hundredths (0.85 is 85) and the      *)
(* weighted blend of score_match in twentieths, so that all arithmetic is  *)
(* exact integer arithmetic.                                               *)
(***************************************************************************)
EXTENDS Integers, Sequences, FiniteSets, TLC

(***************************************************************************)
(* Bounds of the model.                                                    *)
(***************************************************************************)
MaxDemand == 2
MaxSupply == 2
\* the largest overlap count on which calculate_semantic_bonus is called
MaxOverlap == 8
\* the parts that the model divides a token of a SimpleRateLimiter into
TokenParts == 2
\* the largest small refill of a SimpleRateLimiter, in parts of a token
MaxRefill == 3

(***************************************************************************)
(* Strings.                                                                *)
(***************************************************************************)
UpperChars == "ABCDEFGHIJKLMNOPQRSTUVWXYZ"
LowerChars == "abcdefghijklmnopqrstuvwxyz"
DigitChars == "0123456789"

CharAt(t, at) == SubSeq(t, at, at)

CharsOf(t) == {CharAt(t, at) : at \in 1..Len(t)}

\* str.lower() on one character
LowerChar(c) ==
    IF \E at \in 1..26 : CharAt(UpperChars, at) = c
    THEN CharAt(LowerChars, CHOOSE at \in 1..26 : CharAt(UpperChars, at) = c)
    ELSE c

\* str.lower()
Lower(t) ==
    LET lowered[k \in 0..Len(t)] ==
            IF k = 0 THEN "" ELSE lowered[k - 1] \o LowerChar(CharAt(t, k))
    IN  lowered[Len(t)]

\* the class \w of re, on ASCII text
IsWordChar(c) == c \in CharsOf(LowerChars) \cup CharsOf(UpperChars) \cup CharsOf(DigitChars) \cup {"_"}

\* the class \s of re, on the white space the records hold
IsSpace(c) == c = " "

\* p occurs in t at position i
MatchAt(p, t, at) == at >= 1 /\ at + Len(p) - 1 <= Len(t) /\ SubSeq(t, at, at + Len(p) - 1) = p

\* \b of re between position i-1 and position i of t
BoundaryAt(t, at) ==
    LET before == IF at - 1 >= 1 /\ at - 1 <= Len(t) THEN IsWordChar(CharAt(t, at - 1)) ELSE FALSE
        after == IF at >= 1 /\ at <= Len(t) THEN IsWordChar(CharAt(t, at)) ELSE FALSE
    IN before # after

\* re.search(p, t) for a literal p;  also Python's  p in t
Has(p, t) == \E at \in 1..(Len(t) - Len(p) + 1) : MatchAt(p, t, at)

\* re.search(r'\bp\b', t) ; lb and rb say which of the two \b are present
HasB(p, t, lb, rb) ==
    \E at \in 1..(Len(t) - Len(p) + 1) :
        /\ MatchAt(p, t, at)
        /\ lb => BoundaryAt(t, at)
        /\ rb => BoundaryAt(t, at + Len(p))

\* re.search(r'p1|p2|...', t)
HasAny(ps, t) == \E p \in ps : Has(p, t)

\* re.search(r'\b(p1|p2|...)\b', t)
HasAnyWord(ps, t) == \E p \in ps : HasB(p, t, TRUE, TRUE)


(***************************************************************************)
(* Records.  A NormalizedRecord is a TLA+ record with the fields           *)
(* domain, company, full_name, title, industry, signal, signal_meta,       *)
(* company_description, company_funding, size, record_key and metadata;    *)
(* every text field but industry is a string, the empty string when        *)
(* absent.                                                                 *)
(* signal_meta is [present, kind, label]; present = FALSE is None.         *)
(***************************************************************************)
\* the field industry is a string or a list of strings; a string t is
\* [is_list |-> FALSE, items |-> <<t>>]
Str(t) == [is_list |-> FALSE, items |-> <<t>>]
List(items) == [is_list |-> TRUE, items |-> items]

NoMeta == [present |-> FALSE, kind |-> "", label |-> ""]
Meta(kind, label) == [present |-> TRUE, kind |-> kind, label |-> label]

BlankRecord ==
    [domain |-> "", company |-> "", full_name |-> "", title |-> "",
     industry |-> Str(""), signal |-> "", signal_meta |-> NoMeta,
     company_description |-> "", company_funding |-> "", size |-> "",
     record_key |-> "", metadata |-> ""]

\* Python's truth value of a string
Truthy(t) == t # ""

\* to_string_safe on a string
to_string_safe(v) == v

\* Python's truth value of an industry
IndustryTruthy(v) == IF v.is_list THEN v.items # <<>> ELSE Truthy(v.items[1])

\* str() of a list of strings, none of which holds a quote
ListRepr(items) ==
    LET joined[k \in 0..Len(items)] ==
            IF k = 0 THEN ""
            ELSE joined[k - 1] \o (IF k = 1 THEN "" ELSE ", ") \o "'" \o items[k] \o "'"
    IN  "[" \o joined[Len(items)] \o "]"

\* to_string_safe on an industry, and its value in an f-string
IndustryString(v) == IF v.is_list THEN ListRepr(v.items) ELSE to_string_safe(v.items[1])

\* x[0] if isinstance(x, list) else x, as a string; the list is not empty
FirstIndustry(v) == to_string_safe(v.items[1])

\* the outcome of a call that raises
Raises(exception) == [raised |-> exception]

Profile(category, specifics, confidence, source) ==
    [category |-> category, specifics |-> specifics,
     confidence |-> confidence, source |-> source]

\* the list built by a run of  if test: specifics.append(tag)
Accumulate(rules) ==
    LET list[k \in 0..Len(rules)] ==
            IF k = 0 THEN <<>>
            ELSE list[k - 1] \o (IF rules[k][1] THEN <<rules[k][2]>> ELSE <<>>)
    IN  list[Len(rules)]

(***************************************************************************)
(* Need extraction.                                                        *)
(***************************************************************************)
is_hiring_data(d) == d.signal_meta.present /\ d.signal_meta.kind = "HIRING_ROLE"

NeedNonHiring(d) ==
    LET description == Lower(to_string_safe(d.company_description))
        funding == Lower(to_string_safe(d.company_funding))
        industry == Lower(IndustryString(d.industry))
        company == Lower(to_string_safe(d.company))
        industry_and_desc == industry \o " " \o company \o " " \o description
    IN  IF HasAny({"biotech", "pharma", "therapeutic", "clinical", "life science", "drug",
                   "medical device", "biopharma"}, industry_and_desc)
        THEN Profile("biotech", IF Truthy(funding) THEN <<"funded">> ELSE <<>>, 85, "industry")
        ELSE IF /\ HasAny({"health", "medical", "hospital", "patient", "clinic"}, industry_and_desc)
                /\ ~HasAny({"biotech", "pharma"}, industry_and_desc)
        THEN Profile("healthcare", <<>>, 80, "industry")
        ELSE IF /\ \/ HasB("software", industry_and_desc, TRUE, TRUE)
                   \/ HasB("cloud", industry_and_desc, TRUE, TRUE)
                   \/ HasAny({"saas", "platform", "digital", "ai company", "tech company"},
                             industry_and_desc)
                /\ ~HasAny({"biotech", "fintech", "healthtech"}, industry_and_desc)
        THEN Profile("tech", <<>>, 80, "industry")
        ELSE IF HasAny({"fintech", "financial technology"}, industry_and_desc)
        THEN Profile("fintech", <<>>, 80, "industry")
        ELSE IF /\ HasAny({"financ", "banking", "insurance", "invest", "capital", "asset"},
                          industry_and_desc)
                /\ ~Has("fintech", industry_and_desc)
        THEN Profile("finance_co", <<>>, 75, "industry")
        ELSE IF \/ Truthy(funding)
                \/ HasAny({"raised", "funding", "series", "seed", "round"}, description)
        THEN Profile("growth", <<"post-funding", "scaling">>, 70, "funding_signal")
        ELSE Profile("company", <<>>, 40, "industry")

NeedHiring(d) ==
    LET signal == Lower(to_string_safe(d.signal))
        title == Lower(to_string_safe(d.title))
        description == Lower(to_string_safe(d.company_description))
        funding == Lower(to_string_safe(d.company_funding))
        combined == signal \o " " \o title
    IN  IF /\ \/ HasAny({"engineer", "developer", "devops", "backend", "frontend", "fullstack",
                         "data scientist"}, combined)
                 \/ HasB("software", combined, TRUE, TRUE)
                 \/ HasB("ml", combined, FALSE, TRUE)
                 \/ HasB("ai", combined, FALSE, TRUE)
              /\ ~Has("recruit", combined)
        THEN Profile("engineering",
                     Accumulate(<<
                        <<HasAny({"senior", "staff", "lead", "principal"}, combined), "senior">>,
                        <<HasAny({"ml", "machine learning"}, combined)
                            \/ HasB("ai", combined, FALSE, TRUE), "ML/AI">>,
                        <<HasAny({"backend", "server"}, combined), "backend">>,
                        <<HasAny({"frontend", "react", "ui"}, combined), "frontend">> >>),
                     90, "job_signal")
        ELSE IF \/ HasAnyWord({"sales", "ae", "sdr", "bdr"}, combined)
                \/ HasAny({"account executive", "revenue", "business development", "closer"},
                          combined)
        THEN Profile("sales",
                     Accumulate(<<
                        <<HasAny({"vp", "head", "director"}, combined), "leadership">>,
                        <<Has("enterprise", combined), "enterprise">> >>),
                     90, "job_signal")
        ELSE IF \/ HasAny({"marketing", "growth", "brand", "content", "paid", "demand gen", "gtm"},
                          combined)
                \/ HasB("seo", combined, TRUE, TRUE)
        THEN Profile("marketing",
                     Accumulate(<<
                        <<HasAny({"head", "vp", "director"}, combined), "leadership">>,
                        <<Has("content", combined), "content">> >>),
                     90, "job_signal")
        ELSE IF \/ HasAnyWord({"finance", "cfo"}, combined)
                \/ HasAny({"accounting", "controller", "fp&a", "bookkeep"}, combined)
        THEN Profile("finance", <<>>, 90, "job_signal")
        ELSE IF \/ HasAny({"operations", "chief operating", "supply chain", "logistics"}, combined)
                \/ HasAnyWord({"ops", "coo"}, combined)
        THEN Profile("operations", <<>>, 90, "job_signal")
        ELSE IF \/ HasAny({"recruiter", "talent", "human resources", "people ops"}, combined)
                \/ HasB("hr", combined, TRUE, TRUE)
        THEN Profile("recruiting", <<>>, 90, "job_signal")
        ELSE IF \/ Truthy(funding)
                \/ HasAny({"raised", "funding", "series", "seed", "round"},
                          combined \o " " \o description)
        THEN Profile("growth", <<"post-funding", "scaling">>, 70, "funding_signal")
        ELSE Profile("general", <<>>, 30, "none")

\* the need read from the role alone, whatever the kind of the data
ExtractNeedIgnoringKind(d) == NeedHiring(d)

extract_need_from_demand(d) ==
    IF ~is_hiring_data(d) THEN NeedNonHiring(d) ELSE NeedHiring(d)

(***************************************************************************)
(* Capability extraction.                                                  *)
(***************************************************************************)
extract_capability_from_supply(s) ==
    LET description == Lower(to_string_safe(s.company_description))
        title == Lower(to_string_safe(s.title))
        company == Lower(to_string_safe(s.company))
        industry == Lower(FirstIndustry(s.industry))
        combined == description \o " " \o title \o " " \o company \o " " \o industry
    IN  IF s.industry.is_list /\ s.industry.items = <<>> THEN Raises("IndexError")
        ELSE IF HasAny({"recruit", "staffing", "talent acquisition", "headhunt", "placement",
                   "hiring agency", "staffing agency"}, combined)
        THEN Profile("recruiting",
                     Accumulate(<<
                        <<Has("engineer", combined) \/ HasB("software", combined, TRUE, TRUE),
                          "tech">>,
                        <<HasAny({"executive", "c-suite", "leadership"}, combined),
                          "executive">> >>),
                     IF Has("recruit", description) THEN 95
                     ELSE IF Has("recruit", title) THEN 85 ELSE 70,
                     IF Has("recruit", description) THEN "description"
                     ELSE IF Has("recruit", title) THEN "title" ELSE "company_name")
        ELSE IF HasAny({"marketing agency", "ad agency", "advertising agency", "creative agency",
                        "pr agency"}, combined)
        THEN Profile("marketing",
                     Accumulate(<<
                        <<HasAny({"startup", "venture"}, combined), "startups">>,
                        <<HasAny({"enterprise", "b2b"}, combined), "enterprise">> >>),
                     90, "description")
        ELSE IF HasAny({"dev shop", "development agency", "software agency",
                        "software consultancy", "app development"}, combined)
        THEN Profile("engineering",
                     Accumulate(<<
                        <<Has("startup", combined), "startups">>,
                        <<HasAny({"mobile", "ios", "android"}, combined), "mobile">> >>),
                     80, "description")
        ELSE IF HasAny({"consulting firm", "advisory firm", "management consulting",
                        "strategy consulting", "consultancy"}, combined)
        THEN Profile("consulting", <<>>, 75, "description")
        ELSE IF HasAny({"fractional", "interim", "outsourced cfo", "outsourced coo",
                        "part-time executive"}, combined)
        THEN Profile("fractional", <<>>, 80, "title")
        ELSE IF HasAny({"biotech", "pharma", "therapeutic", "clinical", "life science",
                        "biopharma"}, combined)
        THEN Profile("biotech_contact", <<>>, 70, "industry")
        ELSE IF /\ HasAny({"health", "medical", "hospital"}, combined)
                /\ ~HasAny({"biotech", "pharma"}, combined)
        THEN Profile("healthcare_contact", <<>>, 65, "industry")
        ELSE IF /\ \/ HasB("software", combined, TRUE, TRUE)
                   \/ HasB("cloud", combined, TRUE, TRUE)
                   \/ HasAny({"saas", "platform"}, combined)
                /\ ~HasAny({"agency", "shop", "development company", "consultancy"}, combined)
        THEN Profile("tech_contact", <<>>, 60, "industry")
        ELSE IF /\ HasAny({"financ", "banking", "investment", "capital"}, combined)
                /\ ~Has("recruit", combined)
        THEN Profile("finance_contact", <<>>, 60, "industry")
        ELSE IF \/ HasAny({"business development", "licensing", "partnerships"}, title)
                \/ HasB("bd", title, FALSE, TRUE)
        THEN Profile("bd_professional", <<>>, 70, "title")
        ELSE IF HasAny({"ceo", "cto", "cfo", "coo", "founder", "co-founder", "president", "chief"},
                       title)
        THEN Profile("executive", <<>>, 50, "title")
        ELSE Profile("professional", <<>>, 30, "none")

(***************************************************************************)
(* Alignment of a need with a capability.                                  *)
(***************************************************************************)
industry_matches ==
    [biotech |-> <<"biotech_contact", "bd_professional">>,
     healthcare |-> <<"healthcare_contact", "biotech_contact">>,
     tech |-> <<"tech_contact", "engineering">>,
     fintech |-> <<"finance_contact", "tech_contact">>,
     finance_co |-> <<"finance_contact", "consulting">>]

cross_matches ==
    [engineering |-> {"recruiting", "consulting"},
     sales |-> {"marketing", "recruiting"},
     marketing |-> {"sales", "growth"},
     finance |-> {"consulting", "fractional"}]

InList(x, list) == \E k \in 1..Len(list) : list[k] = x

\* the alignment without the rule on the recruiting capability
AlignmentWithoutRecruitingRule(need, capability) ==
    IF need.category \in DOMAIN cross_matches
          /\ capability.category \in cross_matches[need.category]
    THEN 25
    ELSE IF capability.category \in {"general", "professional"} THEN 10
    ELSE 5

score_alignment(need, capability) ==
    LET need_cat == need.category
        cap_cat == capability.category
    IN  IF need_cat \in DOMAIN industry_matches /\ industry_matches[need_cat][1] = cap_cat
        THEN 50
        ELSE IF need_cat \in DOMAIN industry_matches /\ InList(cap_cat, industry_matches[need_cat])
        THEN 40
        ELSE IF /\ cap_cat = "recruiting"
                /\ need_cat \in {"engineering", "sales", "marketing", "finance", "operations",
                                 "recruiting"}
        THEN 45
        ELSE IF cap_cat = "engineering" /\ need_cat = "engineering"
        THEN 40
        ELSE IF cap_cat = "marketing" /\ need_cat = "marketing"
        THEN 50
        ELSE IF cap_cat = "consulting" /\ need_cat \in {"operations", "growth", "finance_co", "company"}
        THEN 35
        ELSE IF cap_cat = "fractional" /\ need_cat \in {"growth", "finance", "operations"}
        THEN 40
        ELSE IF cap_cat = "bd_professional"
        THEN (IF need_cat \in {"growth", "biotech", "healthcare", "tech", "fintech"} THEN 35 ELSE 20)
        ELSE IF cap_cat = "executive"
        THEN (IF need_cat = "growth" THEN 30 ELSE 15)
        ELSE IF need_cat = "growth"
        THEN (IF cap_cat \in {"marketing", "recruiting"} THEN 40
              ELSE IF cap_cat \in {"consulting", "fractional"} THEN 35
              ELSE IF cap_cat \notin {"general", "professional"} THEN 25
              ELSE 15)
        ELSE IF need_cat \in DOMAIN cross_matches /\ cap_cat \in cross_matches[need_cat]
        THEN 25
        ELSE IF need_cat \in {"general", "company"}
        THEN (IF cap_cat \in {"consulting", "bd_professional"} THEN 20 ELSE 15)
        ELSE IF cap_cat \in {"general", "professional"}
        THEN 10
        ELSE 5

(***************************************************************************)
(* Tier.                                                                   *)
(***************************************************************************)
need_labels ==
    [engineering |-> "Hiring engineers", sales |-> "Hiring sales",
     marketing |-> "Hiring marketing", recruiting |-> "Hiring recruiters",
     finance |-> "Hiring finance", operations |-> "Hiring operations",
     growth |-> "Raised funding", general |-> "Active company",
     biotech |-> "Biotech company", healthcare |-> "Healthcare company",
     tech |-> "Tech company", fintech |-> "Fintech company",
     finance_co |-> "Finance company", company |-> "Company"]

cap_labels ==
    [recruiting |-> "Recruiter", marketing |-> "Marketing agency",
     engineering |-> "Dev shop", consulting |-> "Consultant",
     fractional |-> "Fractional exec", sales |-> "Sales consultant",
     finance |-> "Finance consultant", operations |-> "Ops consultant",
     growth |-> "Growth partner", general |-> "Provider",
     biotech_contact |-> "Biotech BD contact", healthcare_contact |-> "Healthcare contact",
     tech_contact |-> "Tech contact", finance_contact |-> "Finance contact",
     bd_professional |-> "BD professional", executive |-> "Executive",
     professional |-> "Professional"]

\* the tier taken from the confidence of the need alone
DetermineTierByNeedConfidence(score, need, capability, demand_signal_label) ==
    IF score >= 70 /\ need.confidence >= 70 THEN <<"strong", "">>
    ELSE IF score >= 45 \/ (score >= 30 /\ need.confidence >= 50) THEN <<"good", "">>
    ELSE <<"open", "">>

\* the pair (tier, tier_reason); demand_signal_label = "" stands for None
determine_tier(score, need, capability, demand_signal_label) ==
    LET need_label ==
            IF Truthy(demand_signal_label) THEN demand_signal_label
            ELSE IF need.category \in DOMAIN need_labels THEN need_labels[need.category]
            ELSE need.category
        cap_label ==
            IF capability.category \in DOMAIN cap_labels THEN cap_labels[capability.category]
            ELSE "Provider"
        tier_reason == need_label \o " -> " \o cap_label
        \* twice the combined confidence, in hundredths
        twice_confidence == need.confidence + capability.confidence
    IN  IF score >= 70 /\ twice_confidence >= 140 THEN <<"strong", tier_reason>>
        ELSE IF score >= 45 \/ (score >= 30 /\ twice_confidence >= 100) THEN <<"good", tier_reason>>
        ELSE <<"open", tier_reason>>

(***************************************************************************)
(* Feature scorers.                                                        *)
(***************************************************************************)
related_groups ==
    << {"software", "tech", "technology", "saas", "it"},
       {"finance", "fintech", "banking", "financial services"},
       {"healthcare", "health", "medical", "biotech", "pharma"},
       {"staffing", "recruiting", "hr", "talent", "human resources"},
       {"marketing", "advertising", "media", "digital marketing"},
       {"sales", "business development", "revenue"} >>

\* the industry score with the two names compared as they are written
ScoreIndustryCaseSensitive(demand_industry, supply_industry) ==
    IF ~IndustryTruthy(demand_industry) \/ ~IndustryTruthy(supply_industry) THEN 10
    ELSE LET d == FirstIndustry(demand_industry)
             s == FirstIndustry(supply_industry)
         IN  IF d = s THEN 30
             ELSE IF Has(d, s) \/ Has(s, d) THEN 20
             ELSE IF \E g \in 1..Len(related_groups) :
                        HasAny(related_groups[g], d) /\ HasAny(related_groups[g], s)
             THEN 15
             ELSE 5

score_industry(demand_industry, supply_industry) ==
    IF ~IndustryTruthy(demand_industry) \/ ~IndustryTruthy(supply_industry) THEN 10
    ELSE LET d == Lower(FirstIndustry(demand_industry))
             s == Lower(FirstIndustry(supply_industry))
         IN  IF d = s THEN 30
             ELSE IF Has(d, s) \/ Has(s, d) THEN 20
             ELSE IF \E g \in 1..Len(related_groups) :
                        HasAny(related_groups[g], d) /\ HasAny(related_groups[g], s)
             THEN 15
             ELSE 5

score_signal(demand_signal, supply_title, supply_industry) ==
    IF ~Truthy(demand_signal) THEN 5
    ELSE LET signal == Lower(to_string_safe(demand_signal))
             title == Lower(to_string_safe(supply_title))
             industry == Lower(IndustryString(supply_industry))
             is_engineering == HasAny({"engineer", "developer", "software", "tech", "cto"}, signal)
             is_sales == HasAny({"sales", "account", "revenue", "sdr", "bdr"}, signal)
             is_marketing == HasAny({"marketing", "growth", "brand", "content"}, signal)
             is_recruiting == HasAny({"recruiter", "talent", "hr", "hiring"}, signal)
             is_finance == HasAny({"finance", "cfo", "accounting", "controller"}, signal)
             served == title \o industry
             supply_serves_engineering == HasAny({"engineer", "developer", "tech", "software"}, served)
             supply_serves_sales == HasAny({"sales", "revenue", "business"}, served)
             supply_serves_marketing == HasAny({"marketing", "growth", "brand"}, served)
             supply_serves_recruiting == HasAny({"recruit", "staffing", "talent", "hr"}, served)
             supply_serves_finance == HasAny({"finance", "accounting", "cfo"}, served)
         IN  IF is_engineering /\ supply_serves_engineering THEN 40
             ELSE IF is_sales /\ supply_serves_sales THEN 40
             ELSE IF is_marketing /\ supply_serves_marketing THEN 40
             ELSE IF is_recruiting /\ supply_serves_recruiting THEN 40
             ELSE IF is_finance /\ supply_serves_finance THEN 40
             ELSE IF supply_serves_recruiting THEN 25
             ELSE 10

\* re.sub(r'[^0-9]', '', size)
DigitsOf(t) ==
    LET digits[k \in 0..Len(t)] ==
            IF k = 0 THEN ""
            ELSE digits[k - 1] \o (IF CharAt(t, k) \in CharsOf(DigitChars) THEN CharAt(t, k)
                                   ELSE "")
    IN  digits[Len(t)]

DigitValue(c) == (CHOOSE at \in 1..10 : CharAt(DigitChars, at) = c) - 1

\* int() of a string of digits
IntOf(t) ==
    LET value[k \in 0..Len(t)] ==
            IF k = 0 THEN 0 ELSE 10 * value[k - 1] + DigitValue(CharAt(t, k))
    IN  value[Len(t)]

parse_size(size) ==
    LET num_str == DigitsOf(to_string_safe(size))
    IN  IF Truthy(num_str) THEN IntOf(num_str) ELSE 50

Max(a, b) == IF a >= b THEN a ELSE b
Min(a, b) == IF a <= b THEN a ELSE b

\* the size score with the ratio taken over the supply size itself
ScoreSizeUnguarded(demand_size, supply_size) ==
    IF ~Truthy(demand_size) \/ ~Truthy(supply_size) THEN 10
    ELSE LET d_size == parse_size(demand_size)
             s_size == parse_size(supply_size)
         IN  IF 2 * d_size >= s_size /\ d_size <= 5 * s_size THEN 20
             ELSE IF 5 * d_size >= s_size /\ d_size <= 10 * s_size THEN 15
             ELSE 5

\* ratio = d_size / max(s_size, 1), compared without division
score_size(demand_size, supply_size) ==
    IF ~Truthy(demand_size) \/ ~Truthy(supply_size) THEN 10
    ELSE LET d_size == parse_size(demand_size)
             s_size == parse_size(supply_size)
             den == Max(s_size, 1)
         IN  IF 2 * d_size >= den /\ d_size <= 5 * den THEN 20
             ELSE IF 5 * d_size >= den /\ d_size <= 10 * den THEN 15
             ELSE 5

(***************************************************************************)
(* Semantic expansion.                                                     *)
(***************************************************************************)
SEMANTIC_MATCHING_ENABLED == TRUE

SUPPLY_CAPABILITY_EXPANSIONS ==
    [recruiting |-> {"hiring", "talent acquisition", "staffing", "headhunting",
                     "recruiter", "placement", "sourcing", "talent", "hire",
                     "engineer", "engineers", "engineering", "developer", "software",
                     "sales", "marketing"},
     recruit |-> {"hiring", "talent", "staffing", "hire"},
     staffing |-> {"recruiting", "hiring", "talent", "hire"},
     talent |-> {"recruiting", "hiring", "staffing", "hire"},
     engineering_recruiting |-> {"technical hiring", "hire engineers", "engineering hires",
                                 "tech hiring", "developer hiring", "engineer", "software"},
     sales_recruiting |-> {"sales hiring", "hire salespeople", "sales hires", "revenue hiring"},
     marketing_recruiting |-> {"marketing hiring", "hire marketers", "marketing hires"},
     executive_recruiting |-> {"executive hiring", "leadership hiring", "c-suite hiring",
                               "executive search"}]

DEMAND_NEED_EXPANSIONS ==
    [hiring |-> {"recruiting", "talent acquisition", "staffing", "team building",
                 "headcount", "recruit", "recruiter"},
     engineer |-> {"recruiting", "staffing", "talent", "hire", "hiring", "technical hiring"},
     engineers |-> {"recruiting", "staffing", "talent", "hire", "hiring"},
     engineering |-> {"recruiting", "staffing", "talent", "hire", "hiring",
                      "engineering hires", "hire engineers", "technical hiring",
                      "developer", "software engineer", "tech talent"},
     software |-> {"recruiting", "staffing", "talent", "hire", "engineering"},
     developer |-> {"recruiting", "staffing", "talent", "hire", "engineering"},
     sales |-> {"recruiting", "staffing", "talent", "hire", "hiring",
                "sales hires", "hire salespeople", "sales talent", "revenue team"},
     marketing |-> {"recruiting", "staffing", "talent", "hire", "hiring",
                    "marketing hires", "hire marketers", "marketing talent"},
     operations |-> {"recruiting", "staffing", "talent", "hire",
                     "operations hires", "hire ops", "ops talent"},
     finance |-> {"recruiting", "staffing", "talent", "hire",
                  "finance hires", "hire finance", "accounting talent"}]

\* dict.get(key, [])
Lookup(map, key) == IF key \in DOMAIN map THEN map[key] ELSE {}

\* the result "none" stands for None
resolve_ambiguous_term(term, side, text) ==
    LET lower_term == Lower(term)
        lower_text == Lower(text)
        has_hiring_context ==
            HasAnyWord({"hire", "hiring", "team", "headcount", "recruit", "talent", "staffing",
                        "placement"}, lower_text)
        has_recruiting_context ==
            HasAnyWord({"recruit", "recruiting", "staffing", "talent", "headhunt", "placement",
                        "sourcing"}, lower_text)
    IN  IF lower_term \in {"engineering", "engineer", "engineers"}
        THEN (IF side = "demand" /\ has_hiring_context THEN "need"
              ELSE IF side = "supply" /\ has_recruiting_context THEN "capability"
              ELSE "none")
        ELSE IF lower_term = "sales"
        THEN (IF side = "demand" /\ has_hiring_context THEN "need"
              ELSE IF side = "supply" /\ has_recruiting_context THEN "capability"
              ELSE "none")
        ELSE IF lower_term = "marketing"
        THEN (IF side = "demand" /\ has_hiring_context THEN "need"
              ELSE IF side = "supply" /\ has_recruiting_context THEN "capability"
              ELSE "none")
        ELSE IF lower_term = "growth"
        THEN (IF has_hiring_context
              THEN (IF side = "demand" THEN "need" ELSE "capability")
              ELSE "none")
        ELSE "none"

\* what one token of the loop of expand_semantic_signals adds to expanded
TokenExpansion(token, side, text) ==
    LET lower_token == Lower(token)
        expansion_map == IF side = "demand" THEN DEMAND_NEED_EXPANSIONS
                         ELSE SUPPLY_CAPABILITY_EXPANSIONS
        resolution == resolve_ambiguous_term(lower_token, side, text)
    IN  Lookup(expansion_map, lower_token)
        \cup (IF resolution = "need" /\ side = "demand"
              THEN Lookup(DEMAND_NEED_EXPANSIONS, "hiring") ELSE {})
        \cup (IF resolution = "capability" /\ side = "supply"
              THEN Lookup(SUPPLY_CAPABILITY_EXPANSIONS, "recruiting") ELSE {})

\* what the text-level context detection adds to expanded
TextExpansion(side, text) ==
    LET lower_text == Lower(text)
    IN  IF /\ side = "supply"
           /\ HasAnyWord({"recruit", "recruiting", "staffing", "talent", "headhunt", "placement"},
                         lower_text)
        THEN Lookup(SUPPLY_CAPABILITY_EXPANSIONS, "recruiting")
        ELSE IF /\ side = "demand"
                /\ HasAnyWord({"hiring", "hire", "hires", "team building", "headcount"}, lower_text)
        THEN Lookup(DEMAND_NEED_EXPANSIONS, "hiring")
        ELSE {}

\* the fields base and expanded of the SemanticExpansionResult
expand_semantic_signals(tokens, side, text) ==
    LET base == {Lower(tokens[k]) : k \in 1..Len(tokens)}
    IN  IF ~SEMANTIC_MATCHING_ENABLED
        THEN [base |-> base, expanded |-> base]
        ELSE [base |-> base,
              expanded |-> base
                           \cup UNION {TokenExpansion(tokens[k], side, text) : k \in 1..Len(tokens)}
                           \cup TextExpansion(side, text)]

\* re.sub(r'[^\w\s]', ' ', text)
Clean(t) ==
    LET cleaned[k \in 0..Len(t)] ==
            IF k = 0 THEN ""
            ELSE cleaned[k - 1] \o (IF IsWordChar(CharAt(t, k)) \/ IsSpace(CharAt(t, k))
                                    THEN CharAt(t, k) ELSE " ")
    IN  cleaned[Len(t)]

\* str.split(): the maximal runs of non-space characters, in order; a run
\* starts at a non-space character that follows a space or starts t
Split(t) ==
    LET starts == {k \in 1..Len(t) :
                      ~IsSpace(CharAt(t, k)) /\ (k = 1 \/ IsSpace(CharAt(t, k - 1)))}
        end(k) == CHOOSE e \in k..Len(t) :
                      /\ \A l \in k..e : ~IsSpace(CharAt(t, l))
                      /\ e = Len(t) \/ IsSpace(CharAt(t, e + 1))
        start(p) == CHOOSE k \in starts : Cardinality({l \in starts : l <= k}) = p
    IN  [p \in 1..Cardinality(starts) |-> SubSeq(t, start(p), end(start(p)))]

extract_tokens(text) ==
    IF ~Truthy(text) THEN <<>>
    ELSE LET cleaned == Clean(Lower(text))
         IN  SelectSeq(Split(cleaned), LAMBDA w : Len(w) > 2)

\* the characters of the tokens, in an order
Alphabet == " &-0123456789_abcdefghijklmnopqrstuvwxyz"

CharRank(c) == CHOOSE r \in 1..Len(Alphabet) : CharAt(Alphabet, r) = c

\* a is before b in the dictionary
StrLess(a, b) ==
    \E k \in 1..Len(b) :
        /\ k - 1 <= Len(a)
        /\ SubSeq(a, 1, k - 1) = SubSeq(b, 1, k - 1)
        /\ k > Len(a) \/ CharRank(CharAt(a, k)) < CharRank(CharAt(b, k))

\* the elements of S in the order of the dictionary
DictionaryOrder(S) ==
    LET rank(token) == 1 + Cardinality({other \in S : StrLess(other, token)})
    IN  [p \in 1..Cardinality(S) |-> CHOOSE token \in S : rank(token) = p]

Reverse(seq) == [k \in 1..Len(seq) |-> seq[Len(seq) + 1 - k]]

\* The order in which Python iterates over a set of strings depends on the
\* hash seed of the process: seed stands for it, and two seeds give two
\* different orders, here the order of the dictionary and its reverse.
IterationOrder(S, seed) ==
    IF seed = 0 THEN DictionaryOrder(S) ELSE Reverse(DictionaryOrder(S))

\* the tokens of demand_tokens that are in supply_tokens, in the order of
\* iteration over the set demand_tokens
compute_semantic_overlap(demand_tokens, supply_tokens, seed) ==
    LET matched == SelectSeq(IterationOrder(demand_tokens, seed),
                             LAMBDA token : token \in supply_tokens)
    IN  [overlapCount |-> Len(matched), matchedTokens |-> matched]

\* the bonus with the lowest band left out
SemanticBonusFromThreeUp(overlap_count) ==
    IF overlap_count >= 5 THEN 30
    ELSE IF overlap_count >= 3 THEN 20
    ELSE 0

calculate_semantic_bonus(overlap_count) ==
    IF overlap_count >= 5 THEN 30
    ELSE IF overlap_count >= 3 THEN 20
    ELSE IF overlap_count >= 1 THEN 10
    ELSE 0

\* the dictionary that get_semantic_score returns for an overlap
SemanticScore(overlap) ==
    [bonus |-> calculate_semantic_bonus(overlap.overlapCount),
     overlapCount |-> overlap.overlapCount,
     matchedTokens |-> overlap.matchedTokens]

get_semantic_score(demand_text, supply_text, seed) ==
    LET demand_tokens == extract_tokens(demand_text)
        supply_tokens == extract_tokens(supply_text)
        demand_result == expand_semantic_signals(demand_tokens, "demand", demand_text)
        supply_result == expand_semantic_signals(supply_tokens, "supply", supply_text)
    IN  SemanticScore(compute_semantic_overlap(demand_result.expanded, supply_result.expanded,
                                               seed))

(***************************************************************************)
(* Scoring of one pair.                                                    *)
(***************************************************************************)
\* Python's round(n / d) for integers n >= 0 and d > 0: to the nearest
\* integer, a tie to the even one
RoundHalfEven(n, d) ==
    LET q == n \div d
        r == n % d
    IN  IF 2 * r < d THEN q
        ELSE IF 2 * r > d THEN q + 1
        ELSE IF q % 2 = 0 THEN q ELSE q + 1

\* str(n) for an integer n >= 0
IntToStr(n) ==
    LET str[m \in 0..n] ==
            IF m < 10 THEN CharAt(DigitChars, m + 1)
            ELSE str[m \div 10] \o CharAt(DigitChars, (m % 10) + 1)
    IN  str[n]

\* the weights of score_match, in twentieths
WEIGHTS == [industry |-> 3, signal |-> 3, size |-> 2, alignment |-> 10, base |-> 2]

base_score == 10

\* f"{r.signal} {r.title} {r.company_description} {r.industry}"
SemanticText(r) ==
    r.signal \o " " \o r.title \o " " \o r.company_description \o " " \o IndustryString(r.industry)

\* the blend with the semantic bonus subtracted instead of added
BlendWithBonusSubtracted(industry_score, signal_score, size_score, alignment_score, semantic_bonus) ==
    industry_score * WEIGHTS.industry + signal_score * WEIGHTS.signal
    + size_score * WEIGHTS.size + alignment_score * WEIGHTS.alignment
    + base_score * WEIGHTS.base - 20 * semantic_bonus

\* the blend with base_score added whole, outside the weights
BlendWithBaseUnweighted(industry_score, signal_score, size_score, alignment_score, semantic_bonus) ==
    industry_score * WEIGHTS.industry + signal_score * WEIGHTS.signal
    + size_score * WEIGHTS.size + alignment_score * WEIGHTS.alignment
    + 20 * base_score + 20 * semantic_bonus

\* twenty times the sum that score_match rounds
BlendTwentieths(industry_score, signal_score, size_score, alignment_score, semantic_bonus) ==
    industry_score * WEIGHTS.industry + signal_score * WEIGHTS.signal
    + size_score * WEIGHTS.size + alignment_score * WEIGHTS.alignment
    + base_score * WEIGHTS.base + 20 * semantic_bonus

\* the score with int(x + 0.5) in the place of round(x)
CappedScoreRoundingHalfUp(industry_score, signal_score, size_score, alignment_score, semantic_bonus) ==
    Min(100, (BlendTwentieths(industry_score, signal_score, size_score, alignment_score,
                              semantic_bonus) + 10) \div 20)

\* the score before the floor of 1
CappedScore(industry_score, signal_score, size_score, alignment_score, semantic_bonus) ==
    Min(100, RoundHalfEven(BlendTwentieths(industry_score, signal_score, size_score,
                                           alignment_score, semantic_bonus), 20))

\* the floor of 1
FlooredScore(total_score) == IF total_score = 0 THEN 1 ELSE total_score

\* the values that score_industry, score_signal, score_size, score_alignment
\* and calculate_semantic_bonus return
FeatureScores ==
    [industry |-> {5, 10, 15, 20, 30},
     signal |-> {5, 10, 25, 40},
     size |-> {5, 10, 15, 20},
     alignment |-> {5, 10, 15, 20, 25, 30, 35, 40, 45, 50},
     semantic_bonus |-> {0, 10, 20, 30}]

\* the scores that score_match can give to a pair of records, whatever the
\* records are
PossibleScores ==
    {FlooredScore(CappedScore(fi, fg, fz, fa, fb)) :
        fi \in FeatureScores.industry, fg \in FeatureScores.signal, fz \in FeatureScores.size,
        fa \in FeatureScores.alignment, fb \in FeatureScores.semantic_bonus}

\* a reason that names the first matched token instead of the count
OverlapReasonNamingToken(semantic_result) ==
    IF semantic_result.bonus >= 10
    THEN <<"Keyword overlap (" \o semantic_result.matchedTokens[1] \o ")">>
    ELSE <<>>

\* the reason that score_match gives for the semantic bonus, if any
OverlapReason(semantic_result) ==
    IF semantic_result.bonus >= 20
    THEN <<"Strong keyword overlap (" \o IntToStr(semantic_result.overlapCount) \o " matches)">>
    ELSE IF semantic_result.bonus >= 10
    THEN <<"Keyword overlap (" \o IntToStr(semantic_result.overlapCount) \o " matches)">>
    ELSE <<>>

\* the Match that score_match builds from the profiles and the feature
\* scores of the pair
MatchOf(d, s, need_profile, capability_profile, industry_score, signal_score, size_score, alignment_score, semantic_result) ==
    LET semantic_bonus == semantic_result.bonus
        total_score == CappedScore(industry_score, signal_score, size_score, alignment_score,
                                   semantic_bonus)
        tier == determine_tier(total_score, need_profile, capability_profile,
                               IF d.signal_meta.present THEN d.signal_meta.label ELSE "")
        reasons ==
            Accumulate(<<
                <<industry_score > 20, "Industry match">>,
                <<signal_score > 25, "Signal alignment">>,
                <<size_score > 10, "Size fit">>,
                <<alignment_score >= 40,
                  need_profile.category \o " need -> " \o capability_profile.category
                    \o " capability">>,
                <<alignment_score < 40 /\ alignment_score >= 25, "Cross-functional fit">> >>)
            \o OverlapReason(semantic_result)
            \o Accumulate(<< <<total_score = 0, "Exploratory match">> >>)
    IN  [demand |-> d, supply |-> s,
         score |-> FlooredScore(total_score),
         reasons |-> reasons,
         tier |-> tier[1], tier_reason |-> tier[2],
         need_profile |-> need_profile, capability_profile |-> capability_profile]

\* seed is the hash seed of the process that runs score_match
score_match(d, s, seed) ==
    LET need_profile == extract_need_from_demand(d)
        capability_profile == extract_capability_from_supply(s)
    IN  MatchOf(d, s, need_profile, capability_profile,
                score_industry(d.industry, s.industry),
                score_signal(d.signal, s.title, s.industry),
                score_size(d.size, s.size),
                score_alignment(need_profile, capability_profile),
                get_semantic_score(SemanticText(d), SemanticText(s), seed))

(***************************************************************************)
(* Keys, sorting and aggregation.                                          *)
(***************************************************************************)
get_demand_key(d) ==
    IF Truthy(d.record_key) THEN d.record_key
    ELSE IF Truthy(d.full_name) THEN d.full_name
    ELSE d.company \o "-" \o d.title

get_supply_key(s) ==
    IF Truthy(s.record_key) THEN s.record_key
    ELSE IF Truthy(s.domain) THEN s.domain
    ELSE IF Truthy(s.full_name) THEN s.full_name
    ELSE s.company \o "-" \o s.title

\* list.sort(key=..., reverse=True), with keys[k] the key of seq[k]: the
\* sort is descending and stable, so seq[k] goes behind the elements of a
\* greater key and behind the earlier elements of the same key
SortDescending(seq, keys) ==
    LET position(k) ==
            1 + Cardinality({l \in 1..Len(seq) : keys[l] > keys[k]})
              + Cardinality({l \in 1..(k - 1) : keys[l] = keys[k]})
    IN  [p \in 1..Len(seq) |-> seq[CHOOSE k \in 1..Len(seq) : position(k) = p]]

\* the sort without reverse=True
SortByScoreAscending(matches) ==
    SortDescending(matches, [k \in 1..Len(matches) |-> 0 - matches[k].score])

\* a descending sort that is not stable: equal scores come out reversed
SortByScoreReversingTies(matches) ==
    LET ascending == SortDescending(matches, [k \in 1..Len(matches) |-> 0 - matches[k].score])
    IN  [p \in 1..Len(matches) |-> ascending[Len(matches) + 1 - p]]

SortByScore(matches) ==
    SortDescending(matches, [k \in 1..Len(matches) |-> matches[k].score])

SortByTotalMatches(aggregates) ==
    SortDescending(aggregates, [k \in 1..Len(aggregates) |-> aggregates[k].total_matches])

\* the elements of seq at the positions chosen, in the order of seq
SelectIndices(seq, chosen) ==
    [p \in 1..Cardinality(chosen) |->
        seq[CHOOSE k \in chosen : Cardinality({l \in chosen : l <= k}) = p]]

\* the last match of each demand key instead of the first
LastMatchPerDemand(matches) ==
    SelectIndices(matches,
                  {k \in 1..Len(matches) : \A l \in (k + 1)..Len(matches) :
                      get_demand_key(matches[l].demand) # get_demand_key(matches[k].demand)})

\* the first match of each demand key, in the order of matches
get_best_match_per_demand(matches) ==
    SelectIndices(matches,
                  {k \in 1..Len(matches) : \A l \in 1..(k - 1) :
                      get_demand_key(matches[l].demand) # get_demand_key(matches[k].demand)})

\* the keys of the dict by_supply, in the order of their insertion
SupplyKeysInOrder(matches) ==
    LET keys == [k \in 1..Len(matches) |-> get_supply_key(matches[k].supply)]
    IN  SelectIndices(keys, {k \in 1..Len(keys) : \A l \in 1..(k - 1) : keys[l] # keys[k]})

DemandKeysOf(matches) == {get_demand_key(matches[k].demand) : k \in 1..Len(matches)}

\* each aggregate holding its best match only
AggregateKeepingBestOnly(matches) ==
    LET keys == SupplyKeysInOrder(matches)
        by_supply(key) == SelectSeq(matches, LAMBDA m : get_supply_key(m.supply) = key)
        aggregate(key) ==
            LET supplier_matches == SortByScore(by_supply(key))
            IN  [supply |-> supplier_matches[1].supply,
                 matches |-> <<supplier_matches[1]>>,
                 best_match |-> supplier_matches[1],
                 total_matches |-> Cardinality(DemandKeysOf(supplier_matches))]
        aggregates == [k \in 1..Len(keys) |-> aggregate(keys[k])]
    IN  SortByTotalMatches(aggregates)

aggregate_by_supply(matches) ==
    LET keys == SupplyKeysInOrder(matches)
        by_supply(key) == SelectSeq(matches, LAMBDA m : get_supply_key(m.supply) = key)
        aggregate(key) ==
            LET supplier_matches == SortByScore(by_supply(key))
            IN  [supply |-> supplier_matches[1].supply,
                 matches |-> supplier_matches,
                 best_match |-> supplier_matches[1],
                 total_matches |-> Cardinality(DemandKeysOf(supplier_matches))]
        aggregates == [k \in 1..Len(keys) |-> aggregate(keys[k])]
    IN  SortByTotalMatches(aggregates)

SumScores(matches) ==
    LET sum[k \in 0..Len(matches)] == IF k = 0 THEN 0 ELSE sum[k - 1] + matches[k].score
    IN  sum[Len(matches)]

\* round(sum(scores) / len(scores)) if scores else 0
AverageScore(matches) ==
    IF matches = <<>> THEN 0 ELSE RoundHalfEven(SumScores(matches), Len(matches))

Stats(total_demand, total_supply, total_matches, unique_demands_matched, avg_score) ==
    [total_demand |-> total_demand, total_supply |-> total_supply,
     total_matches |-> total_matches,
     unique_demands_matched |-> unique_demands_matched, avg_score |-> avg_score]

MatchingResult(demand_matches, supply_aggregates, stats) ==
    [demand_matches |-> demand_matches, supply_aggregates |-> supply_aggregates,
     stats |-> stats]

\* the average taken over the returned matches instead of all kept ones
BuildResultAveragingReturned(kept, n_demand, n_supply, best_only) ==
    LET sorted_matches == SortByScore(kept)
        demand_matches == IF best_only THEN get_best_match_per_demand(sorted_matches)
                          ELSE sorted_matches
    IN  MatchingResult(demand_matches,
                       aggregate_by_supply(demand_matches),
                       Stats(n_demand, n_supply, Len(demand_matches),
                             Cardinality(DemandKeysOf(demand_matches)),
                             AverageScore(demand_matches)))

\* total_demand and total_supply taken from the wrong list
BuildResultSwappingTotals(kept, n_demand, n_supply, best_only) ==
    LET sorted_matches == SortByScore(kept)
        demand_matches == IF best_only THEN get_best_match_per_demand(sorted_matches)
                          ELSE sorted_matches
    IN  MatchingResult(demand_matches,
                       aggregate_by_supply(demand_matches),
                       Stats(n_supply, n_demand, Len(demand_matches),
                             Cardinality(DemandKeysOf(demand_matches)),
                             AverageScore(sorted_matches)))

\* the test of match_records with > instead of >=
PassesStrictly(match, threshold) == match.score > threshold

\* the test that match_records applies to a scored pair
Passes(match, threshold) == match.score >= threshold

\* what match_records does with the matches that its loop has kept
BuildResult(kept, n_demand, n_supply, best_only) ==
    LET sorted_matches == SortByScore(kept)
        demand_matches == IF best_only THEN get_best_match_per_demand(sorted_matches)
                          ELSE sorted_matches
    IN  MatchingResult(demand_matches,
                       aggregate_by_supply(demand_matches),
                       Stats(n_demand, n_supply, Len(demand_matches),
                             Cardinality(DemandKeysOf(demand_matches)),
                             AverageScore(sorted_matches)))

(***************************************************************************)
(* filter_by_score.  A NormalizedRecord has no attribute company_name:     *)
(* reading it raises AttributeError.                                       *)
(***************************************************************************)
FilterMatches(matches, threshold) == SelectSeq(matches, LAMBDA m : m.score >= threshold)

FilterAggregates(aggregates, threshold) ==
    LET narrowed(a) == [supply |-> a.supply,
                        matches |-> FilterMatches(a.matches, threshold),
                        best_match |-> FilterMatches(a.matches, threshold)[1],
                        total_matches |-> Len(FilterMatches(a.matches, threshold))]
        kept == SelectSeq(aggregates, LAMBDA a : FilterMatches(a.matches, threshold) # <<>>)
    IN  [k \in 1..Len(kept) |-> narrowed(kept[k])]

EmptyResult == MatchingResult(<<>>, <<>>, Stats(0, 0, 0, 0, 0))

\* raised is "" when filter_by_score returns
filter_by_score(res, threshold) ==
    LET filtered_demand == FilterMatches(res.demand_matches, threshold)
        filtered_aggregates == FilterAggregates(res.supply_aggregates, threshold)
        reads_company_name ==
            \E k \in 1..Len(filtered_demand) : ~Truthy(filtered_demand[k].demand.domain)
        unique_demands ==
            Cardinality({filtered_demand[k].demand.domain : k \in 1..Len(filtered_demand)})
    IN  IF reads_company_name
        THEN [raised |-> "AttributeError", result |-> EmptyResult]
        ELSE [raised |-> "",
              result |-> MatchingResult(filtered_demand, filtered_aggregates,
                                        Stats(res.stats.total_demand, res.stats.total_supply,
                                              Len(filtered_demand), unique_demands,
                                              AverageScore(filtered_demand)))]

(***************************************************************************)
(* The inputs of the model.                                                *)
(***************************************************************************)
D1 == [BlankRecord EXCEPT !.domain = "acme.com", !.full_name = "Ada", !.company = "Acme",
                          !.signal = "Hiring: Senior Software Engineer",
                          !.signal_meta = Meta("HIRING_ROLE", "Senior engineer role"),
                          !.industry = Str("Software"), !.size = "200"]
D2 == [BlankRecord EXCEPT !.domain = "helix.bio", !.full_name = "Ada", !.company = "Helix",
                          !.industry = Str("Biotech"), !.company_description = "clinical trials",
                          !.size = "11-50"]
D3 == [BlankRecord EXCEPT !.record_key = "k3", !.company = "Orbit",
                          !.signal = "hiring engineers"]

S1 == [BlankRecord EXCEPT !.domain = "talent.io", !.company = "TalentCo",
                          !.company_description = "recruiting agency for engineers",
                          !.industry = Str("Staffing"), !.size = "50"]
S2 == [BlankRecord EXCEPT !.domain = "genix.com", !.title = "Founder",
                          !.industry = Str("Biotech"), !.size = "3"]
S3 == [BlankRecord EXCEPT !.domain = "talent.io", !.full_name = "Sam", !.title = "Founder"]

DemandPool == {D1, D2, D3}
SupplyPool == {S1, S2, S3}
MinScores == {0, 12, 70}
HashSeeds == {0, 1}

\* more records, for the calls of one function on its own
D4 == [BlankRecord EXCEPT !.company = "Recruit Inc", !.title = "Founder",
                          !.signal_meta = Meta("FUNDING", "Funded"), !.industry = Str("Software"),
                          !.company_description = "Staffing and placement firm for sales talent",
                          !.size = "200"]
D5 == [BlankRecord EXCEPT !.company = "TalentCo", !.title = "BD Director", !.signal = "SDR",
                          !.signal_meta = Meta("HIRING_ROLE", ""), !.industry = Str("Healthcare"),
                          !.company_description = "executive search & headhunting",
                          !.company_funding = "$5M", !.size = "50"]
D6 == [BlankRecord EXCEPT !.company = "Helix Pharma", !.signal = "Hiring team: 5 engineers",
                          !.industry = Str("Healthcare"),
                          !.company_description = "investment capital group",
                          !.company_funding = "$5M", !.size = "200"]
D7 == [BlankRecord EXCEPT !.title = "CEO & Co-Founder",
                          !.signal = "Raised Series A funding round",
                          !.signal_meta = Meta("FUNDING", "Funded"),
                          !.company_description = "creative agency for startups",
                          !.company_funding = "$5M", !.size = "n/a"]
S4 == [BlankRecord EXCEPT !.company = "Helix Pharma", !.title = "Recruiter",
                          !.signal = "Looking for UI/React developer",
                          !.signal_meta = Meta("HIRING_ROLE", ""),
                          !.industry = Str("SaaS platform"),
                          !.company_description = "recruiting agency for engineers",
                          !.size = "200"]
S5 == [BlankRecord EXCEPT !.company = "TalentCo", !.title = "CEO & Co-Founder",
                          !.industry = Str("Healthcare"),
                          !.company_description = "management consulting"]
S6 == [BlankRecord EXCEPT !.company = "Recruit Inc", !.title = "Founder",
                          !.signal = "HR recruiter", !.industry = Str("Healthcare"),
                          !.company_description = "executive search & headhunting",
                          !.company_funding = "$5M", !.size = "50"]
S7 == [BlankRecord EXCEPT !.signal = "Hiring team: 5 engineers",
                          !.signal_meta = Meta("FUNDING", "Funded"), !.industry = Str("Fintech"),
                          !.company_funding = "$5M", !.size = "3"]

DemandRecords == {D1, D2, D4, D5, D6, D7}
SupplyRecords == {S1, S4, S5, S6, S7}

\* the profiles that extract_need_from_demand returns, specifics apart
NeedOutcomes ==
    {Profile("engineering", <<>>, 90, "job_signal"), Profile("sales", <<>>, 90, "job_signal"),
     Profile("marketing", <<>>, 90, "job_signal"), Profile("finance", <<>>, 90, "job_signal"),
     Profile("operations", <<>>, 90, "job_signal"), Profile("recruiting", <<>>, 90, "job_signal"),
     Profile("growth", <<"post-funding", "scaling">>, 70, "funding_signal"),
     Profile("general", <<>>, 30, "none"),
     Profile("biotech", <<>>, 85, "industry"), Profile("healthcare", <<>>, 80, "industry"),
     Profile("tech", <<>>, 80, "industry"), Profile("fintech", <<>>, 80, "industry"),
     Profile("finance_co", <<>>, 75, "industry"), Profile("company", <<>>, 40, "industry")}

\* the profiles that extract_capability_from_supply returns, specifics apart
CapabilityOutcomes ==
    {Profile("recruiting", <<>>, 95, "description"), Profile("recruiting", <<>>, 85, "title"),
     Profile("recruiting", <<>>, 70, "company_name"),
     Profile("marketing", <<>>, 90, "description"), Profile("engineering", <<>>, 80, "description"),
     Profile("consulting", <<>>, 75, "description"), Profile("fractional", <<>>, 80, "title"),
     Profile("biotech_contact", <<>>, 70, "industry"),
     Profile("healthcare_contact", <<>>, 65, "industry"),
     Profile("tech_contact", <<>>, 60, "industry"), Profile("finance_contact", <<>>, 60, "industry"),
     Profile("bd_professional", <<>>, 70, "title"), Profile("executive", <<>>, 50, "title"),
     Profile("professional", <<>>, 30, "none")}

\* capability profiles of the categories that score_alignment and cap_labels
\* name and extract_capability_from_supply never returns
OtherCapabilities ==
    {Profile(category, <<>>, 30, "none") :
        category \in {"general", "sales", "finance", "operations", "growth"}}

\* values of the field industry: absent, a string, a list
IndustryValues ==
    {Str(""), List(<<>>), List(<<"">>), Str("software"), Str("Software"), Str("SaaS"),
     Str("Fintech"), Str("Banking"), Str("Biotech"), Str("Health Tech"), Str("Retail"),
     List(<<"Software", "Retail">>), List(<<"Retail", "Software">>)}

\* terms given to resolve_ambiguous_term: the ambiguous ones, one of them
\* in capitals, and two others
ResolvedTerms ==
    {"engineering", "engineer", "engineers", "sales", "marketing", "growth", "Growth",
     "software", "hiring"}

\* texts around a term: with a word of both context families, of one of
\* them only, with a word that only contains one, and with none
ContextTexts ==
    {"", "Hiring 5 engineers", "growth team", "Engineering recruiting agency",
     "sourcing partner for sales", "software engineering platform", "talent for marketing",
     "headcount growth", "recruiters and teams", "Staffing, placement"}

\* values of the field size: absent, digits, digits among other characters,
\* no digit
SizeValues ==
    {"", "0", "1", "2", "5", "10", "11", "50", "51", "200", "501", "n/a", "11-50", "1,000+"}

\* scores around the thresholds of determine_tier
TierScores == {0, 1, 29, 30, 44, 45, 69, 70, 100}

\* values of the argument demand_signal_label; "" stands for None
SignalLabels == {"", "Senior engineer role"}

\* demand records of job data: a role in signal, with or without funding
HiringSignals ==
    {"Hiring: Senior Software Engineer", "Sales Engineer", "Engineering Recruiter", "Growth Marketing Lead",
     "Head of Sales Operations", "CFO", "Finance Operations Manager", "COO",
     "Talent Partner", "Office Manager", "Seed stage generalist"}

HiringRecord(role, funding) ==
    [BlankRecord EXCEPT !.company = "Acme", !.signal = role,
                        !.signal_meta = Meta("HIRING_ROLE", role), !.company_funding = funding]

\* demand records of other data: an industry and a description, with or
\* without funding
CompanyIndustries ==
    {"", "Biotechnology", "Healthcare", "Digital health pharma", "Software",
     "Fintech software", "Fintech", "Financial Services", "Retail"}

CompanyRecord(industry, description, funding) ==
    [BlankRecord EXCEPT !.company = "Acme", !.title = "Head of Sales", !.industry = Str(industry),
                        !.company_description = description, !.company_funding = funding]

NeedRecords ==
    {HiringRecord(role, funding) : role \in HiringSignals, funding \in {"", "Series A"}}
    \cup {CompanyRecord(industry, description, funding) :
              industry \in CompanyIndustries, description \in {"", "Raised a seed round"},
              funding \in {"", "Series A"}}

\* supply records: a description, a title, a company name and an industry
\* that is a string, a list or the empty list
SupplyDescriptions ==
    {"", "recruiting agency for engineers", "Staffing and placement firm",
     "creative agency for startups", "dev shop building mobile apps",
     "management consulting for biotech", "cloud platform for hospitals",
     "cloud software platform", "investment capital group"}

SupplyTitles == {"", "Recruiter", "Interim CFO", "VP, bd", "Founder"}

SupplyCompanies == {"Acme", "Recruit Inc"}

SupplyIndustries == {Str(""), Str("Biotech"), List(<<"Staffing", "HR">>), List(<<>>)}

CapabilityRecord(description, title, company, industry) ==
    [BlankRecord EXCEPT !.company_description = description, !.title = title,
                        !.company = company, !.industry = industry]

CapabilityRecords ==
    {CapabilityRecord(description, title, company, industry) :
        description \in SupplyDescriptions, title \in SupplyTitles,
        company \in SupplyCompanies, industry \in SupplyIndustries}

\* the expanded token set that get_semantic_score computes for one side
ExpandedTokens(text, side) == expand_semantic_signals(extract_tokens(text), side, text).expanded

\* the local variables of score_match that hold the feature scores and the
\* semantic result of the pair
PairFeatures(d, s, seed) ==
    [industry_score |-> score_industry(d.industry, s.industry),
     signal_score |-> score_signal(d.signal, s.title, s.industry),
     size_score |-> score_size(d.size, s.size),
     alignment_score |-> score_alignment(extract_need_from_demand(d),
                                         extract_capability_from_supply(s)),
     semantic_result |-> get_semantic_score(SemanticText(d), SemanticText(s), seed)]

\* score_match on the records of the pools, computed once
MatchTable ==
    [d \in DemandPool, s \in SupplyPool, seed \in HashSeeds |-> score_match(d, s, seed)]

\* the sequences over S of length at most n
SeqsUpTo(S, n) == UNION {[1..k -> S] : k \in 0..n}

\* the two module-level taxonomy tables, as the import of the module sets them
TaxonomyTables ==
    [DEMAND_NEED_EXPANSIONS |-> DEMAND_NEED_EXPANSIONS,
     SUPPLY_CAPABILITY_EXPANSIONS |-> SUPPLY_CAPABILITY_EXPANSIONS]

\* no function of the module has been called on its own
NoCall == [fn |-> "", args |-> <<>>, ret |-> <<>>]

(***************************************************************************)
(* enrich_record.  A record is given by the fields that enrich_record and  *)
(* the providers read or write; an EnrichmentResult is given without its   *)
(* dict inputs_present, which nothing reads.  "" stands for None as well   *)
(* as for the empty string: the code tests these values for truth only.    *)
(***************************************************************************)
ContactRecord(email, domain, company, full_name, first_name, last_name, title, linkedin) ==
    [email |-> email, domain |-> domain, company |-> company, full_name |-> full_name,
     first_name |-> first_name, last_name |-> last_name, title |-> title, linkedin |-> linkedin]

EnrichmentResult(action, outcome, email, first_name, last_name, title, verified, source) ==
    [action |-> action, outcome |-> outcome, email |-> email, first_name |-> first_name,
     last_name |-> last_name, title |-> title, verified |-> verified, source |-> source]

\* a result with the defaults of the fields that the call does not give
ResultWithDefaults(action, outcome, source) ==
    EnrichmentResult(action, outcome, "", "", "", "", FALSE, source)

\* None in the place of an EnrichmentResult
NoResult == ResultWithDefaults("", "None", "")

EnrichmentConfig(apollo_api_key, anymail_api_key, ssm_api_key) ==
    [apollo_api_key |-> apollo_api_key, anymail_api_key |-> anymail_api_key,
     ssm_api_key |-> ssm_api_key]

classify_inputs(r) ==
    LET has_email == Truthy(r.email)
        has_domain == Truthy(r.domain)
        has_company == Truthy(r.company)
        name_parts == Split(r.full_name)
        has_full_name == Len(name_parts) >= 2 \/ (Truthy(r.first_name) /\ Truthy(r.last_name))
        has_name_with_context == Len(name_parts) = 1 /\ (Truthy(r.title) \/ Truthy(r.linkedin))
        has_person_name == has_full_name \/ has_name_with_context
    IN  IF has_email THEN "VERIFY"
        ELSE IF has_domain /\ has_person_name THEN "FIND_PERSON"
        ELSE IF has_domain THEN "FIND_COMPANY_CONTACT"
        ELSE IF has_company /\ has_person_name THEN "SEARCH_PERSON"
        ELSE IF has_company THEN "SEARCH_COMPANY"
        ELSE "CANNOT_ROUTE"

\* what a provider function does when it is called: it returns a result or
\* None, or it raises
Gives(provider_result) == [raised |-> "", result |-> provider_result]

Throws(exception) == [raised |-> exception, result |-> NoResult]

\* the emails that a provider finds
FoundEmails == {"ada@acme.com"}

\* the people that Apollo ranks first: with a name and a title, and without
ApolloPeople ==
    {[first_name |-> "Grace", last_name |-> "Hopper", title |-> "CTO"],
     [first_name |-> "", last_name |-> "", title |-> ""]}

\* the outcomes of verify_with_ssm(email, api_key): by the answer of the
\* service
verify_with_ssm(email, api_key) ==
    IF ~Truthy(api_key) \/ ~Truthy(email) THEN {NoResult}
    ELSE {NoResult,
          EnrichmentResult("VERIFY", "AUTH_ERROR", email, "", "", "", FALSE, "ssm"),
          EnrichmentResult("VERIFY", "RATE_LIMITED", email, "", "", "", FALSE, "ssm"),
          EnrichmentResult("VERIFY", "VERIFIED", email, "", "", "", TRUE, "ssm"),
          EnrichmentResult("VERIFY", "VERIFIED", email, "", "", "", FALSE, "ssm"),
          EnrichmentResult("VERIFY", "INVALID", email, "", "", "", FALSE, "ssm")}

\* the outcomes of enrich_with_ssm(record, api_key, timeout_ms)
enrich_with_ssm(r, api_key) ==
    IF ~Truthy(api_key) \/ ~Truthy(r.domain) THEN {Gives(NoResult)}
    ELSE IF ~Truthy(r.first_name) /\ Truthy(r.full_name) /\ Split(r.full_name) = <<>>
    THEN {Throws("IndexError")}
    ELSE LET first_name == IF Truthy(r.first_name) THEN r.first_name
                           ELSE IF Truthy(r.full_name) THEN Split(r.full_name)[1] ELSE ""
             last_name == IF Truthy(r.last_name) THEN r.last_name
                          ELSE IF Truthy(r.full_name) /\ Len(Split(r.full_name)) > 1
                          THEN Split(r.full_name)[2] ELSE ""
         IN  IF ~Truthy(first_name) \/ ~Truthy(last_name)
             THEN {Gives(ResultWithDefaults("FIND_PERSON", "MISSING_INPUT", "ssm"))}
             ELSE {Gives(NoResult)}
                  \cup {Gives(ResultWithDefaults("FIND_PERSON", outcome, "ssm")) :
                           outcome \in {"AUTH_ERROR", "RATE_LIMITED", "NOT_FOUND", "NO_CANDIDATES"}}
                  \cup {Gives(EnrichmentResult("FIND_PERSON", "ENRICHED", email, first_name,
                                                  last_name, r.title, TRUE, "ssm")) :
                           email \in FoundEmails}

\* the outcomes of enrich_with_apollo(record, api_key, timeout_ms)
enrich_with_apollo(r, api_key) ==
    IF ~Truthy(api_key) THEN {Gives(NoResult)}
    ELSE IF ~Truthy(r.domain) /\ ~Truthy(r.company)
    THEN {Gives(ResultWithDefaults("FIND_PERSON", "MISSING_INPUT", "none"))}
    ELSE {Gives(NoResult)}
         \cup {Gives(ResultWithDefaults("FIND_PERSON", outcome, "apollo")) :
                  outcome \in {"AUTH_ERROR", "CREDITS_EXHAUSTED", "RATE_LIMITED", "NOT_FOUND",
                               "NO_CANDIDATES", "TIMEOUT"}}
         \cup {Gives(EnrichmentResult("FIND_PERSON", "ENRICHED", email, person.first_name,
                                         person.last_name, person.title, TRUE, "apollo")) :
                  email \in FoundEmails, person \in ApolloPeople}

\* the outcomes of enrich_with_anymail(record, api_key, timeout_ms)
enrich_with_anymail(r, api_key) ==
    IF ~Truthy(api_key) \/ ~Truthy(r.domain) THEN {Gives(NoResult)}
    ELSE IF ~(Truthy(r.first_name) \/ Truthy(r.full_name))
    THEN {Gives(ResultWithDefaults("FIND_PERSON", "MISSING_INPUT", "none"))}
    ELSE IF ~Truthy(r.first_name) /\ Split(r.full_name) = <<>>
    THEN {Throws("IndexError")}
    ELSE LET first_name == IF Truthy(r.first_name) THEN r.first_name ELSE Split(r.full_name)[1]
             last_name == IF Truthy(r.last_name) THEN r.last_name
                          ELSE IF Len(Split(r.full_name)) > 1 THEN Split(r.full_name)[2] ELSE ""
         IN  {Gives(NoResult)}
             \cup {Gives(ResultWithDefaults("FIND_PERSON", outcome, "anymail")) :
                      outcome \in {"AUTH_ERROR", "RATE_LIMITED", "NOT_FOUND", "NO_CANDIDATES"}}
             \cup {Gives(EnrichmentResult("FIND_PERSON", "ENRICHED", email, first_name,
                                             last_name, r.title, TRUE, "anymail")) :
                      email \in FoundEmails}

\* one entry of the list that _get_find_providers returns: the function is
\* given by its name
Provider(name, api_key) == [name |-> name, api_key |-> api_key]

_get_find_providers(config, action) ==
    LET anymail == Provider("anymail", config.anymail_api_key)
        apollo == Provider("apollo", config.apollo_api_key)
        ssm == Provider("ssm", config.ssm_api_key)
    IN  IF action = "FIND_PERSON" THEN <<anymail, ssm, apollo>>
        ELSE IF action = "FIND_COMPANY_CONTACT" THEN <<apollo, anymail>>
        ELSE IF action = "SEARCH_PERSON" THEN <<anymail, apollo>>
        ELSE <<apollo, anymail>>

\* provider_func(record, api_key, config.timeout_ms)
provider_func(name, r, api_key) ==
    IF name = "anymail" THEN enrich_with_anymail(r, api_key)
    ELSE IF name = "apollo" THEN enrich_with_apollo(r, api_key)
    ELSE enrich_with_ssm(r, api_key)

\* the record after  record.email = result.email  and the three guarded
\* assignments that follow it
CopyToRecord(r, found) ==
    [r EXCEPT !.email = found.email,
              !.first_name = IF Truthy(found.first_name) THEN found.first_name ELSE @,
              !.last_name = IF Truthy(found.last_name) THEN found.last_name ELSE @,
              !.title = IF Truthy(found.title) THEN found.title ELSE @]

\* the records given to enrich_record: one for each action of
\* classify_inputs, one whose name is a single word with a title, and one
\* whose full_name is white space
EnrichedRecords ==
    {ContactRecord("", "acme.com", "Acme", "Ada Lovelace", "", "", "", ""),
     ContactRecord("", "acme.com", "Acme", "Ada", "", "", "Founder", ""),
     ContactRecord("", "acme.com", "", "", "", "", "", ""),
     ContactRecord("", "acme.com", "Acme", " ", "", "", "", ""),
     ContactRecord("", "", "Acme", "", "Ada", "Lovelace", "", ""),
     ContactRecord("", "", "Acme", "", "", "", "", ""),
     ContactRecord("ada@old.com", "acme.com", "Acme", "Ada Lovelace", "", "", "", ""),
     ContactRecord("", "", "", "Ada Lovelace", "", "", "", "")}

\* the configurations: each key set or not
EnrichmentConfigs ==
    {EnrichmentConfig(apollo_api_key, anymail_api_key, ssm_api_key) :
        apollo_api_key \in {"", "key-1"}, anymail_api_key \in {"", "key-2"},
        ssm_api_key \in {"", "key-3"}}

\* what check_cache(record) returns: None or the result stored for the record
CachedResults ==
    {NoResult,
     EnrichmentResult("FIND_PERSON", "ENRICHED", "cached@acme.com", "Ada", "", "", TRUE, "apollo")}

FindActions == {"FIND_PERSON", "FIND_COMPANY_CONTACT", "SEARCH_PERSON", "SEARCH_COMPANY"}

\* enrich_record has not been called
NoEnrichment ==
    [record |-> ContactRecord("", "", "", "", "", "", "", ""),
     original |-> ContactRecord("", "", "", "", "", "", "", ""),
     config |-> EnrichmentConfig("", "", ""), cached_result |-> NoResult, pc |-> "idle",
     position |-> 1, provider_calls |-> <<>>, cache |-> <<>>, result |-> NoResult,
     raised |-> ""]

(***************************************************************************)
(* SimpleRateLimiter.  tokens is counted in parts of a token, TokenParts to *)
(* the token.  wait_for_token reads time.time() and refills by the time    *)
(* since last_update; the clock is taken not to be set back between two    *)
(* readings, so that a refill is any amount from 0 up: last_update is then *)
(* no part of the state.                                                   *)
(***************************************************************************)
SimpleRateLimiter(tokens_per_second, max_concurrent) ==
    [tokens_per_second |-> tokens_per_second, max_concurrent |-> max_concurrent,
     tokens |-> 0, in_flight |-> 0, pc |-> "idle", last_call |-> ""]

\* the instances that the module makes
_limiters ==
    [instantly |-> SimpleRateLimiter(8, 4), plusvibe |-> SimpleRateLimiter(5, 2)]

\* self.tokens_per_second * 10, in parts
Capacity(self) == self.tokens_per_second * 10 * TokenParts

\* elapsed * self.tokens_per_second, in parts: little, or enough to fill
\* the bucket
Refills(self) == 0..MaxRefill \cup {Capacity(self)}

\* the first two statements of the loop of wait_for_token
Refilled(self, refill) == Min(self.tokens + refill, Capacity(self))

(***************************************************************************)
(* match_records as a state machine: one step for each pair that the       *)
(* nested loop scores, one for the end of each row of the outer loop, one  *)
(* for everything from the sort to the return.                             *)
(***************************************************************************)
VARIABLES
    demand,            \* the argument demand
    supply,            \* the argument supply
    min_score,         \* the argument min_score
    best_match_only,   \* the argument best_match_only
    on_progress,       \* TRUE when a callback is supplied
    hash_seed,         \* the hash seed of the running process
    pc,                \* "loop", "returned" or "filtered"
    i,                 \* the row of the outer loop, from 1
    j,                 \* the position of the inner loop, from 1
    all_matches,       \* the local list all_matches
    progress_calls,    \* the calls of on_progress so far, in order
    result,            \* the MatchingResult that match_records returned
    run,               \* 1 in the first run on the inputs, 2 in the second
    first_run,         \* the hash seed and the MatchingResult of the first run
    filter_min_score,  \* the argument min_score of filter_by_score
    filtered,          \* what filter_by_score did with result
    taxonomy,          \* the module-level tables of semantic_expansion.py
    call,              \* the last call of one function on its own: fn, args, ret
    enrichment,        \* a call of enrich_record: its arguments, locals and cache
    limiter            \* a SimpleRateLimiter and the call that runs on it

vars == <<demand, supply, min_score, best_match_only, on_progress, hash_seed, pc, i, j,
          all_matches, progress_calls, result, run, first_run, filter_min_score, filtered,
          taxonomy, call, enrichment, limiter>>

\* the state of the modules around the matcher
collaborators == <<enrichment, limiter>>

inputs == <<demand, supply, min_score, best_match_only, on_progress>>

NotFiltered == [raised |-> "", result |-> EmptyResult]

Init ==
    /\ demand \in SeqsUpTo(DemandPool, MaxDemand)
    /\ supply \in SeqsUpTo(SupplyPool, MaxSupply)
    /\ min_score \in MinScores
    /\ best_match_only \in BOOLEAN
    /\ on_progress \in BOOLEAN
    /\ hash_seed \in HashSeeds
    /\ pc = "loop"
    /\ i = 1
    /\ j = 1
    /\ all_matches = <<>>
    /\ progress_calls = <<>>
    /\ result = EmptyResult
    /\ run = 1
    /\ first_run = [hash_seed |-> 0, result |-> EmptyResult]
    /\ filter_min_score = 0
    /\ filtered = NotFiltered
    /\ taxonomy = TaxonomyTables
    /\ call = NoCall
    /\ enrichment = NoEnrichment
    /\ limiter = _limiters.instantly

\* one iteration of the inner loop
ScorePair ==
    /\ pc = "loop"
    /\ i <= Len(demand)
    /\ j <= Len(supply)
    /\ LET match == MatchTable[demand[i], supply[j], hash_seed]
       IN  all_matches' = IF Passes(match, min_score) THEN Append(all_matches, match)
                          ELSE all_matches
    /\ j' = j + 1
    /\ UNCHANGED <<inputs, taxonomy, call, collaborators, hash_seed, pc, i, progress_calls, result, run, first_run,
                   filter_min_score, filtered>>

\* the end of a row with the callback given the index from 0
EndRowCountingFromZero ==
    /\ pc = "loop"
    /\ i <= Len(demand)
    /\ j > Len(supply)
    /\ progress_calls' = IF on_progress THEN Append(progress_calls, <<i - 1, Len(demand)>>)
                         ELSE progress_calls
    /\ i' = i + 1
    /\ j' = 1
    /\ UNCHANGED <<inputs, taxonomy, call, collaborators, hash_seed, pc, all_matches, result, run, first_run,
                   filter_min_score, filtered>>

\* the end of one iteration of the outer loop
EndRow ==
    /\ pc = "loop"
    /\ i <= Len(demand)
    /\ j > Len(supply)
    /\ progress_calls' = IF on_progress THEN Append(progress_calls, <<i, Len(demand)>>)
                         ELSE progress_calls
    /\ i' = i + 1
    /\ j' = 1
    /\ UNCHANGED <<inputs, taxonomy, call, collaborators, hash_seed, pc, all_matches, result, run, first_run,
                   filter_min_score, filtered>>

\* the return with the list of supply records emptied on the way
ReturnClearingSupply ==
    /\ pc = "loop"
    /\ i > Len(demand)
    /\ result' = BuildResult(all_matches, Len(demand), Len(supply), best_match_only)
    /\ pc' = "returned"
    /\ supply' = <<>>
    /\ UNCHANGED <<demand, min_score, best_match_only, on_progress, taxonomy, call, collaborators, hash_seed, i, j,
                   all_matches, progress_calls, run, first_run, filter_min_score, filtered>>

\* from the sort to the return
Return ==
    /\ pc = "loop"
    /\ i > Len(demand)
    /\ result' = BuildResult(all_matches, Len(demand), Len(supply), best_match_only)
    /\ pc' = "returned"
    /\ UNCHANGED <<inputs, taxonomy, call, collaborators, hash_seed, i, j, all_matches, progress_calls, run, first_run,
                   filter_min_score, filtered>>

\* a second call of match_records with the same arguments, in a process of
\* another hash seed
RunAgain ==
    /\ pc = "returned"
    /\ run = 1
    /\ run' = 2
    /\ first_run' = [hash_seed |-> hash_seed, result |-> result]
    /\ hash_seed' \in HashSeeds \ {hash_seed}
    /\ pc' = "loop"
    /\ i' = 1
    /\ j' = 1
    /\ all_matches' = <<>>
    /\ progress_calls' = <<>>
    /\ result' = EmptyResult
    /\ UNCHANGED <<inputs, taxonomy, call, collaborators, filter_min_score, filtered>>

\* filter_by_score on the returned result
FilterByScore ==
    /\ pc = "returned"
    /\ \E threshold \in MinScores :
        /\ filter_min_score' = threshold
        /\ filtered' = filter_by_score(result, threshold)
    /\ pc' = "filtered"
    /\ UNCHANGED <<inputs, taxonomy, call, collaborators, hash_seed, i, j, all_matches, progress_calls, result, run,
                   first_run>>

Next == ScorePair \/ EndRow \/ Return \/ RunAgain \/ FilterByScore

Spec == Init /\ [][Next]_vars

(***************************************************************************)
(* The functions of the module called on their own, one call in a step:    *)
(* call holds the function, its arguments and what it returned.            *)
(***************************************************************************)
CallsInit ==
    /\ demand = <<>>
    /\ supply = <<>>
    /\ min_score = 0
    /\ best_match_only = FALSE
    /\ on_progress = FALSE
    /\ hash_seed \in HashSeeds
    /\ pc = "calls"
    /\ i = 1
    /\ j = 1
    /\ all_matches = <<>>
    /\ progress_calls = <<>>
    /\ result = EmptyResult
    /\ run = 1
    /\ first_run = [hash_seed |-> 0, result |-> EmptyResult]
    /\ filter_min_score = 0
    /\ filtered = NotFiltered
    /\ taxonomy = TaxonomyTables
    /\ call = NoCall
    /\ enrichment = NoEnrichment
    /\ limiter = _limiters.instantly

\* what a call of one function on its own leaves alone
run_state == <<inputs, taxonomy, hash_seed, pc, i, j, all_matches, progress_calls, result, run,
               first_run, filter_min_score, filtered, collaborators>>

\* the record of a call of fn on args that returned ret
Returns(fn, args, ret) == [fn |-> fn, args |-> args, ret |-> ret]

\* score_match on a pair of records; ret holds the Match and the feature
\* scores that the call computed on its way
CallScoreMatch ==
    /\ pc = "calls"
    /\ call = NoCall
    /\ \E d \in DemandRecords, s \in SupplyRecords :
          call' = Returns("score_match", <<d, s>>,
                          [match |-> score_match(d, s, hash_seed),
                           features |-> PairFeatures(d, s, hash_seed),
                           expanded |-> [demand |-> ExpandedTokens(SemanticText(d), "demand"),
                                         supply |-> ExpandedTokens(SemanticText(s), "supply")]])
    /\ UNCHANGED run_state

\* determine_tier on a score, two profiles and a label
CallDetermineTier ==
    /\ pc = "calls"
    /\ call = NoCall
    /\ \E score \in TierScores, need \in NeedOutcomes, capability \in CapabilityOutcomes,
          label \in SignalLabels :
          call' = Returns("determine_tier", <<score, need, capability, label>>,
                          determine_tier(score, need, capability, label))
    /\ UNCHANGED run_state

\* extract_need_from_demand on a demand record
CallExtractNeed ==
    /\ pc = "calls"
    /\ call = NoCall
    /\ \E d \in NeedRecords :
          call' = Returns("extract_need_from_demand", <<d>>, extract_need_from_demand(d))
    /\ UNCHANGED run_state

\* extract_capability_from_supply on a supply record
CallExtractCapability ==
    /\ pc = "calls"
    /\ call = NoCall
    /\ \E s \in CapabilityRecords :
          call' = Returns("extract_capability_from_supply", <<s>>,
                          extract_capability_from_supply(s))
    /\ UNCHANGED run_state

\* score_alignment on a need and a capability
CallScoreAlignment ==
    /\ pc = "calls"
    /\ call = NoCall
    /\ \E need \in NeedOutcomes, capability \in CapabilityOutcomes \cup OtherCapabilities :
          call' = Returns("score_alignment", <<need, capability>>,
                          score_alignment(need, capability))
    /\ UNCHANGED run_state

\* score_industry on two industries
CallScoreIndustry ==
    /\ pc = "calls"
    /\ call = NoCall
    /\ \E demand_industry \in IndustryValues, supply_industry \in IndustryValues :
          call' = Returns("score_industry", <<demand_industry, supply_industry>>,
                          score_industry(demand_industry, supply_industry))
    /\ UNCHANGED run_state

\* resolve_ambiguous_term on a term and a context
CallResolveTerm ==
    /\ pc = "calls"
    /\ call = NoCall
    /\ \E term \in ResolvedTerms, side \in {"demand", "supply"}, text \in ContextTexts :
          call' = Returns("resolve_ambiguous_term", <<term, side, text>>,
                          resolve_ambiguous_term(term, side, text))
    /\ UNCHANGED run_state

\* expand_semantic_signals on the tokens of a text, as get_semantic_score
\* calls it
CallExpandSignals ==
    /\ pc = "calls"
    /\ call = NoCall
    /\ \E side \in {"demand", "supply"}, text \in ContextTexts :
          call' = Returns("expand_semantic_signals", <<extract_tokens(text), side, text>>,
                          expand_semantic_signals(extract_tokens(text), side, text))
    /\ UNCHANGED run_state

\* score_size on two sizes
CallScoreSize ==
    /\ pc = "calls"
    /\ call = NoCall
    /\ \E demand_size \in SizeValues, supply_size \in SizeValues :
          call' = Returns("score_size", <<demand_size, supply_size>>,
                          score_size(demand_size, supply_size))
    /\ UNCHANGED run_state

\* calculate_semantic_bonus on an overlap count
CallCalculateBonus ==
    /\ pc = "calls"
    /\ call = NoCall
    /\ \E overlap_count \in 0..MaxOverlap :
          call' = Returns("calculate_semantic_bonus", <<overlap_count>>,
                          calculate_semantic_bonus(overlap_count))
    /\ UNCHANGED run_state

CallsNext ==
    \/ CallScoreMatch
    \/ CallDetermineTier
    \/ CallCalculateBonus
    \/ CallExtractNeed
    \/ CallExtractCapability
    \/ CallScoreAlignment
    \/ CallScoreIndustry
    \/ CallResolveTerm
    \/ CallExpandSignals
    \/ CallScoreSize

Calls == CallsInit /\ [][CallsNext]_vars

(***************************************************************************)
(* enrich_record as a state machine: one step for each return before the   *)
(* waterfall, one for each iteration of the loop over the providers, one   *)
(* for the return after the loop.  provider_calls lists the calls of the   *)
(* provider functions, cache the calls of store_in_cache.                  *)
(***************************************************************************)
\* what a step of enrich_record or of a SimpleRateLimiter leaves alone
matching_state == <<inputs, taxonomy, call, hash_seed, pc, i, j, all_matches, progress_calls, result, run, first_run, filter_min_score, filtered>>

EnrichInit ==
    /\ demand = <<>>
    /\ supply = <<>>
    /\ min_score = 0
    /\ best_match_only = FALSE
    /\ on_progress = FALSE
    /\ hash_seed = 0
    /\ pc = "enrich_record"
    /\ i = 1
    /\ j = 1
    /\ all_matches = <<>>
    /\ progress_calls = <<>>
    /\ result = EmptyResult
    /\ run = 1
    /\ first_run = [hash_seed |-> 0, result |-> EmptyResult]
    /\ filter_min_score = 0
    /\ filtered = NotFiltered
    /\ taxonomy = TaxonomyTables
    /\ call = NoCall
    /\ \E r \in EnrichedRecords, config \in EnrichmentConfigs, cached_result \in CachedResults :
          enrichment = [NoEnrichment EXCEPT !.record = r, !.original = r, !.config = config,
                                            !.cached_result = cached_result, !.pc = "start"]
    /\ limiter = _limiters.instantly

\* the providers of the call, in the order of their priority
Providers == _get_find_providers(enrichment.config, classify_inputs(enrichment.original))

\* the branch VERIFY: the answer of verify_with_ssm if there is a key and an
\* answer, else the email is trusted
ReturnVerify ==
    /\ enrichment.pc = "start"
    /\ classify_inputs(enrichment.record) = "VERIFY"
    /\ \E verify_result \in (IF Truthy(enrichment.config.ssm_api_key) THEN verify_with_ssm(enrichment.record.email, enrichment.config.ssm_api_key) ELSE {NoResult}) :
          enrichment' =
              [enrichment EXCEPT
                  !.pc = "returned",
                  !.result = IF verify_result # NoResult THEN verify_result
                             ELSE EnrichmentResult("VERIFY", "ENRICHED", enrichment.record.email,
                                                   enrichment.record.first_name,
                                                   enrichment.record.last_name,
                                                   enrichment.record.title, TRUE, "existing")]
    /\ UNCHANGED <<matching_state, limiter>>

\* the branch CANNOT_ROUTE
ReturnCannotRoute ==
    /\ enrichment.pc = "start"
    /\ classify_inputs(enrichment.record) = "CANNOT_ROUTE"
    /\ enrichment' = [enrichment EXCEPT
                         !.pc = "returned",
                         !.result = ResultWithDefaults("CANNOT_ROUTE", "MISSING_INPUT", "none")]
    /\ UNCHANGED <<matching_state, limiter>>

\* check_cache finds a result: it is copied to the record and returned
ReturnCached ==
    /\ enrichment.pc = "start"
    /\ classify_inputs(enrichment.record) \in FindActions
    /\ enrichment.cached_result # NoResult
    /\ enrichment' = [enrichment EXCEPT
                         !.pc = "returned",
                         !.record = CopyToRecord(enrichment.record, enrichment.cached_result),
                         !.result = enrichment.cached_result]
    /\ UNCHANGED <<matching_state, limiter>>

\* check_cache finds nothing: the loop over the providers begins
BeginWaterfall ==
    /\ enrichment.pc = "start"
    /\ classify_inputs(enrichment.record) \in FindActions
    /\ enrichment.cached_result = NoResult
    /\ enrichment' = [enrichment EXCEPT !.pc = "waterfall", !.position = 1]
    /\ UNCHANGED <<matching_state, limiter>>

\* an iteration for a provider without a key:  continue
SkipProvider ==
    /\ enrichment.pc = "waterfall"
    /\ enrichment.position <= Len(Providers)
    /\ ~Truthy(Providers[enrichment.position].api_key)
    /\ enrichment' = [enrichment EXCEPT !.position = @ + 1]
    /\ UNCHANGED <<matching_state, limiter>>

\* what an iteration does with what the provider gave
AfterCallCascadingPastCredits(state, provider, given) ==
    LET called == [state EXCEPT !.provider_calls =
                       Append(@, [provider |-> provider, returned |-> given.result,
                                  raised |-> given.raised])]
    IN  IF given.raised # "" THEN [called EXCEPT !.pc = "raised", !.raised = given.raised]
        ELSE IF given.result # NoResult /\ given.result.outcome = "ENRICHED"
        THEN LET copied == CopyToRecord(state.record, given.result)
             IN  [called EXCEPT !.record = copied,
                                !.cache = Append(@, [record |-> copied, result |-> given.result]),
                                !.result = given.result,
                                !.pc = "returned"]
        ELSE IF given.result # NoResult /\ given.result.outcome = "AUTH_ERROR"
        THEN [called EXCEPT !.pc = "after_loop"]
        ELSE [called EXCEPT !.position = @ + 1]

\* what an iteration does with what the provider gave: the result is
\* copied, stored and returned, or the loop is left, or it goes on
AfterCall(state, provider, given) ==
    LET called == [state EXCEPT !.provider_calls =
                       Append(@, [provider |-> provider, returned |-> given.result,
                                  raised |-> given.raised])]
    IN  IF given.raised # "" THEN [called EXCEPT !.pc = "raised", !.raised = given.raised]
        ELSE IF given.result # NoResult /\ given.result.outcome = "ENRICHED"
        THEN LET copied == CopyToRecord(state.record, given.result)
             IN  [called EXCEPT !.record = copied,
                                !.cache = Append(@, [record |-> copied, result |-> given.result]),
                                !.result = given.result,
                                !.pc = "returned"]
        ELSE IF given.result # NoResult /\ given.result.outcome \in {"AUTH_ERROR", "CREDITS_EXHAUSTED"}
        THEN [called EXCEPT !.pc = "after_loop"]
        ELSE [called EXCEPT !.position = @ + 1]

\* an iteration for a provider with a key: the provider is called
CallProvider ==
    /\ enrichment.pc = "waterfall"
    /\ enrichment.position <= Len(Providers)
    /\ Truthy(Providers[enrichment.position].api_key)
    /\ \E given \in provider_func(Providers[enrichment.position].name, enrichment.record, Providers[enrichment.position].api_key) :
          enrichment' = AfterCall(enrichment, Providers[enrichment.position].name, given)
    /\ UNCHANGED <<matching_state, limiter>>

\* after the loop, left by break or at its end
ReturnNotFound ==
    /\ \/ enrichment.pc = "after_loop"
       \/ enrichment.pc = "waterfall" /\ enrichment.position > Len(Providers)
    /\ enrichment' = [enrichment EXCEPT
                         !.pc = "returned",
                         !.result = ResultWithDefaults(classify_inputs(enrichment.original),
                                                       "NOT_FOUND", "none")]
    /\ UNCHANGED <<matching_state, limiter>>

EnrichNext ==
    \/ ReturnVerify
    \/ ReturnCannotRoute
    \/ ReturnCached
    \/ BeginWaterfall
    \/ SkipProvider
    \/ CallProvider
    \/ ReturnNotFound

Enrichment == EnrichInit /\ [][EnrichNext]_vars

(***************************************************************************)
(* A SimpleRateLimiter under calls that follow one another, as those of    *)
(* the loop of the command line: a call of wait_for_token, an iteration of *)
(* its loop, a call of release, a call of drain.                           *)
(***************************************************************************)
LimiterInit ==
    /\ demand = <<>>
    /\ supply = <<>>
    /\ min_score = 0
    /\ best_match_only = FALSE
    /\ on_progress = FALSE
    /\ hash_seed = 0
    /\ pc = "send"
    /\ i = 1
    /\ j = 1
    /\ all_matches = <<>>
    /\ progress_calls = <<>>
    /\ result = EmptyResult
    /\ run = 1
    /\ first_run = [hash_seed |-> 0, result |-> EmptyResult]
    /\ filter_min_score = 0
    /\ filtered = NotFiltered
    /\ taxonomy = TaxonomyTables
    /\ call = NoCall
    /\ enrichment = NoEnrichment
    /\ limiter \in {_limiters.instantly, _limiters.plusvibe}

\* wait_for_token is called
CallWaitForToken ==
    /\ limiter.pc = "idle"
    /\ limiter' = [limiter EXCEPT !.pc = "wait_for_token"]
    /\ UNCHANGED <<matching_state, enrichment>>

\* one iteration of the loop of wait_for_token: the refill, then the token
\* taken and the return, or the sleep
WaitIteration ==
    /\ limiter.pc = "wait_for_token"
    /\ \E refill \in Refills(limiter) :
          LET tokens_now == Refilled(limiter, refill)
          IN  limiter' =
                  IF tokens_now >= TokenParts /\ limiter.in_flight < limiter.max_concurrent
                  THEN [limiter EXCEPT !.tokens = tokens_now - TokenParts,
                                       !.in_flight = @ + 1,
                                       !.pc = "idle", !.last_call = "wait_for_token"]
                  ELSE [limiter EXCEPT !.tokens = tokens_now]
    /\ UNCHANGED <<matching_state, enrichment>>

\* release without the floor of 0
ReleaseUnguarded ==
    /\ limiter.pc = "idle"
    /\ limiter' = [limiter EXCEPT !.in_flight = @ - 1, !.last_call = "release"]
    /\ UNCHANGED <<matching_state, enrichment>>

\* release()
Release ==
    /\ limiter.pc = "idle"
    /\ limiter' = [limiter EXCEPT !.in_flight = Max(0, @ - 1), !.last_call = "release"]
    /\ UNCHANGED <<matching_state, enrichment>>

\* drain()
Drain ==
    /\ limiter.pc = "idle"
    /\ limiter' = [limiter EXCEPT !.tokens = 0, !.last_call = "drain"]
    /\ UNCHANGED <<matching_state, enrichment>>

LimiterNext ==
    \/ CallWaitForToken
    \/ WaitIteration
    \/ Release
    \/ Drain

RateLimiter == LimiterInit /\ [][LimiterNext]_vars

(***************************************************************************)
(* The properties.  They are stated over the arguments and the scores of   *)
(* the pairs, not over the accumulator of the loop.                        *)
(***************************************************************************)
\* the Match of the pair of the a-th demand record and the b-th supply record
PairMatch(a, b) == MatchTable[demand[a], supply[b], hash_seed]

\* the Matches of all pairs, row by row
AllPairs ==
    [k \in 1..(Len(demand) * Len(supply)) |->
        PairMatch(((k - 1) \div Len(supply)) + 1, ((k - 1) % Len(supply)) + 1)]

\* the Matches of the pairs whose score is at least min_score
KeptPairs == SelectSeq(AllPairs, LAMBDA m : m.score >= min_score)

Count(seq, x) == Cardinality({k \in 1..Len(seq) : seq[k] = x})

Range(seq) == {seq[k] : k \in 1..Len(seq)}

Returned == pc \in {"returned", "filtered"}

\* C1: every score that score_match can give is an integer from 1 to 100,
\* and every Match that match_records keeps, while it runs and in the
\* result of either mode, has such a score.
C1_KeptScoreInRange ==
    /\ PossibleScores \subseteq 1..100
    /\ \A k \in 1..Len(all_matches) : all_matches[k].score \in PossibleScores
    /\ \A k \in 1..Len(result.demand_matches) : result.demand_matches[k].score \in 1..100

C1_Witness ==
    /\ pc = "returned"
    /\ best_match_only
    /\ min_score = 12
    /\ Len(result.demand_matches) = 2
    /\ Len(all_matches) < Len(demand) * Len(supply)

\* C2: demand_matches of the returned result is ordered non-increasing by
\* score, in both modes and for every min_score.
C2_DemandMatchesSorted ==
    Returned =>
        \A k \in 1..(Len(result.demand_matches) - 1) :
            result.demand_matches[k].score >= result.demand_matches[k + 1].score

C2_Witness ==
    /\ pc = "returned"
    /\ Len(result.demand_matches) = 4
    /\ result.demand_matches[1].score > result.demand_matches[2].score
    /\ result.demand_matches[2].score > result.demand_matches[4].score
    /\ all_matches # result.demand_matches

\* C3: with best_match_only, demand_matches has exactly one match for each
\* demand key that occurs among the kept pairs, and it is a kept pair of the
\* highest score of that key.
C3_BestMatchPerDemandKey ==
    (Returned /\ best_match_only) =>
        LET dm == result.demand_matches
            kept == KeptPairs
        IN  /\ DemandKeysOf(dm) = DemandKeysOf(kept)
            /\ \A k, l \in 1..Len(dm) :
                   get_demand_key(dm[k].demand) = get_demand_key(dm[l].demand) => k = l
            /\ \A k \in 1..Len(dm) :
                   /\ dm[k] \in Range(kept)
                   /\ \A l \in 1..Len(kept) :
                          get_demand_key(kept[l].demand) = get_demand_key(dm[k].demand)
                              => kept[l].score <= dm[k].score

C3_Witness ==
    /\ pc = "returned"
    /\ best_match_only
    /\ Len(result.demand_matches) = 1
    /\ Len(KeptPairs) = 4
    /\ demand[1] # demand[2]
    /\ result.demand_matches[1] # KeptPairs[1]

\* C4: in every supply aggregate, of the result of match_records and of
\* the result of filter_by_score, total_matches is the number of distinct
\* demand keys of the matches of the aggregate.
C4_TotalMatchesCountsDemandKeys ==
    /\ Returned =>
          \A k \in 1..Len(result.supply_aggregates) :
              result.supply_aggregates[k].total_matches
                  = Cardinality(DemandKeysOf(result.supply_aggregates[k].matches))
    /\ (pc = "filtered" /\ filtered.raised = "") =>
          \A k \in 1..Len(filtered.result.supply_aggregates) :
              filtered.result.supply_aggregates[k].total_matches
                  = Cardinality(DemandKeysOf(filtered.result.supply_aggregates[k].matches))

\* C5: supply_aggregates is ordered non-increasing by total_matches, in the
\* result of match_records and in the result of filter_by_score.
C5_AggregatesSorted ==
    /\ Returned =>
          \A k \in 1..(Len(result.supply_aggregates) - 1) :
              result.supply_aggregates[k].total_matches
                  >= result.supply_aggregates[k + 1].total_matches
    /\ (pc = "filtered" /\ filtered.raised = "") =>
          \A k \in 1..(Len(filtered.result.supply_aggregates) - 1) :
              filtered.result.supply_aggregates[k].total_matches
                  >= filtered.result.supply_aggregates[k + 1].total_matches

\* C6: in default mode demand_matches holds exactly one Match for each pair
\* whose score is at least min_score and none for another pair; with
\* min_score = 0 it has len(demand) * len(supply) entries.
C6_DefaultModeKeepsEveryPassingPair ==
    (Returned /\ ~best_match_only) =>
        LET dm == result.demand_matches
            kept == KeptPairs
        IN  /\ \A m \in Range(dm) \cup Range(AllPairs) : Count(dm, m) = Count(kept, m)
            /\ min_score = 0 => Len(dm) = Len(demand) * Len(supply)

C6_Witness ==
    /\ pc = "returned"
    /\ ~best_match_only
    /\ min_score = 12
    /\ Len(result.demand_matches) = 3
    /\ Len(demand) * Len(supply) = 4
    /\ result.demand_matches[3].score = 12

\* C7: a second run of match_records on the same arguments, in a process
\* of another hash seed, returns the same MatchingResult as the first.
C7_Deterministic ==
    (pc = "returned" /\ run = 2) => result = first_run.result

C7_Witness ==
    /\ pc = "returned"
    /\ run = 2
    /\ hash_seed # first_run.hash_seed
    /\ Len(result.demand_matches) = 4
    /\ \E k \in 1..4 : Len(result.demand_matches[k].reasons) = 4

\* C8: avg_score is the rounded mean of the scores of all pairs that
\* passed min_score, also with best_match_only, and 0 when none passed.
C8_AverageOverKeptPairs ==
    Returned =>
        LET kept == KeptPairs
        IN  result.stats.avg_score
                = IF kept = <<>> THEN 0 ELSE RoundHalfEven(SumScores(kept), Len(kept))

C8_Witness ==
    /\ pc = "returned"
    /\ best_match_only
    /\ Len(result.demand_matches) < Len(KeptPairs)
    /\ result.stats.avg_score # AverageScore(result.demand_matches)
    /\ 2 * SumScores(KeptPairs) % (2 * Len(KeptPairs)) = Len(KeptPairs)

\* C9: a supplied callback is called once for each demand record; the k-th
\* call has the arguments (k, len(demand)) and is made when the k-th row
\* is scored and the next is not begun; all calls precede the return.
C9_ProgressCalls ==
    on_progress =>
        /\ progress_calls = [k \in 1..Len(progress_calls) |-> <<k, Len(demand)>>]
        /\ pc = "loop" => Len(progress_calls) = i - 1
        /\ (pc = "loop" /\ min_score <= 0) =>
               /\ Len(progress_calls) * Len(supply) <= Len(all_matches)
               /\ Len(all_matches) <= (Len(progress_calls) + 1) * Len(supply)
        /\ Returned => Len(progress_calls) = Len(demand)

C9_Witness ==
    /\ pc = "returned"
    /\ on_progress
    /\ Len(demand) = 2
    /\ Len(supply) = 2
    /\ progress_calls = << <<1, 2>>, <<2, 2>> >>

\* C10 as stated: with an empty demand or supply sequence the result is
\* empty and every entry of stats is 0.
C10_AllStatsZero ==
    (Returned /\ (demand = <<>> \/ supply = <<>>)) => result = EmptyResult

\* C10 as amended: with an empty demand or supply sequence demand_matches
\* and supply_aggregates are empty, total_matches, unique_demands_matched
\* and avg_score are 0, and total_demand and total_supply are the lengths
\* of the two sequences.
C10_EmptyInputGivesEmptyResult ==
    (Returned /\ (demand = <<>> \/ supply = <<>>)) =>
        result = MatchingResult(<<>>, <<>>, Stats(Len(demand), Len(supply), 0, 0, 0))

C10_Witness ==
    /\ pc = "returned"
    /\ Len(demand) = 2
    /\ supply = <<>>
    /\ result.stats.total_demand = 2

TiedAt(seq, v) == SelectSeq(seq, LAMBDA m : m.score = v)

\* the kept pairs that the mode leaves, in the order of their generation:
\* all of them, or for each demand key the earliest of its highest score
ChosenPairs ==
    LET same_key(k, l) == get_demand_key(KeptPairs[k].demand) = get_demand_key(KeptPairs[l].demand)
        earliest_best(k) ==
            /\ \A l \in 1..(k - 1) : same_key(k, l) => KeptPairs[l].score < KeptPairs[k].score
            /\ \A l \in (k + 1)..Len(KeptPairs) : same_key(k, l) => KeptPairs[l].score <= KeptPairs[k].score
    IN  IF best_match_only
        THEN SelectIndices(KeptPairs, {k \in 1..Len(KeptPairs) : earliest_best(k)})
        ELSE KeptPairs

\* C25: the sort of the kept matches is stable.  The matches of one score
\* stand in demand_matches in the order of their generation (demand
\* position, then supply position), and in best_match_only mode the match
\* kept for a demand key whose highest score is tied is the earliest
\* generated of the tied ones.
C25_StableSort ==
    Returned =>
        \A v \in {KeptPairs[k].score : k \in 1..Len(KeptPairs)} :
            TiedAt(result.demand_matches, v) = TiedAt(ChosenPairs, v)

\* two different matches of one demand key tie for its highest score, and
\* best_match_only has kept the earlier one
C25_Witness ==
    /\ Returned
    /\ best_match_only
    /\ \E k, l \in 1..Len(KeptPairs) :
        /\ k < l
        /\ KeptPairs[k] # KeptPairs[l]
        /\ get_demand_key(KeptPairs[k].demand) = get_demand_key(KeptPairs[l].demand)
        /\ KeptPairs[k].score = KeptPairs[l].score
        /\ \A n \in 1..Len(KeptPairs) :
              get_demand_key(KeptPairs[n].demand) = get_demand_key(KeptPairs[k].demand)
                  => KeptPairs[n].score <= KeptPairs[k].score
        /\ KeptPairs[k] \in Range(result.demand_matches)
        /\ KeptPairs[l] \notin Range(result.demand_matches)

\* the matches of seq whose supply record has the key given, in the order of seq
OfSupplyKey(seq, key) == SelectSeq(seq, LAMBDA m : get_supply_key(m.supply) = key)

\* seq and other hold the same elements the same number of times
SameBag(seq, other) ==
    /\ Len(seq) = Len(other)
    /\ \A x \in Range(seq) \cup Range(other) : Count(seq, x) = Count(other, x)

FilteredBelowEveryScore ==
    /\ pc = "filtered"
    /\ \A k \in 1..Len(result.demand_matches) : result.demand_matches[k].score >= filter_min_score

\* C28: filter_by_score with a threshold that is not above the score of any
\* match of the result is the identity.  It returns the demand_matches, the
\* supply_aggregates with their total_matches and the stats, with
\* unique_demands_matched among them, that match_records returned.
C28_FilterBelowEveryScoreIsIdentity ==
    FilteredBelowEveryScore => (filtered.raised = "" /\ filtered.result = result)

\* what filter_by_score does keep under such a threshold when it returns:
\* demand_matches, the supply, the matches and the best_match of every
\* aggregate in their order, total_demand, total_supply and total_matches
C28_FilterKeepsMatchesAndGroups ==
    (FilteredBelowEveryScore /\ filtered.raised = "") =>
        /\ filtered.result.demand_matches = result.demand_matches
        /\ Len(filtered.result.supply_aggregates) = Len(result.supply_aggregates)
        /\ \A k \in 1..Len(result.supply_aggregates) :
              /\ filtered.result.supply_aggregates[k].supply = result.supply_aggregates[k].supply
              /\ filtered.result.supply_aggregates[k].matches = result.supply_aggregates[k].matches
              /\ filtered.result.supply_aggregates[k].best_match
                    = result.supply_aggregates[k].best_match
        /\ filtered.result.stats.total_demand = result.stats.total_demand
        /\ filtered.result.stats.total_supply = result.stats.total_supply
        /\ filtered.result.stats.total_matches = result.stats.total_matches

(***************************************************************************)
(* Properties of the functions called on their own.                        *)
(***************************************************************************)
Scored == call.fn = "score_match"

\* round(min(100, 0.15*industry + 0.15*signal + 0.10*size + 0.50*alignment
\* + 1 + bonus)), computed in hundredths
RoundedBlend(fi, fg, fz, fa, fb) ==
    RoundHalfEven(Min(10000, 15 * fi + 15 * fg + 10 * fz + 50 * fa + 100 + 100 * fb), 100)

\* the feature scores for which score_match does not give the rounded blend,
\* made 1 when it is 0
BlendMismatches ==
    {f \in FeatureScores.industry \X FeatureScores.signal \X FeatureScores.size
           \X FeatureScores.alignment \X FeatureScores.semantic_bonus :
        FlooredScore(CappedScore(f[1], f[2], f[3], f[4], f[5]))
            # (IF RoundedBlend(f[1], f[2], f[3], f[4], f[5]) = 0 THEN 1
               ELSE RoundedBlend(f[1], f[2], f[3], f[4], f[5]))}

\* C11: the score of every Match is the rounded blend of the feature scores
\* of its pair, made 1 when the blend rounds to 0; 'Exploratory match' is
\* then the last reason, and in no other case a reason.
C11_ScoreIsRoundedBlend ==
    /\ BlendMismatches = {}
    /\ Scored =>
          LET f == call.ret.features
              m == call.ret.match
              blend == RoundedBlend(f.industry_score, f.signal_score, f.size_score,
                                    f.alignment_score, f.semantic_result.bonus)
          IN  /\ m.score = IF blend = 0 THEN 1 ELSE blend
              /\ blend = 0 => /\ m.reasons # <<>>
                              /\ m.reasons[Len(m.reasons)] = "Exploratory match"
              /\ blend # 0 => "Exploratory match" \notin Range(m.reasons)

C11_Witness ==
    /\ Scored
    /\ call.ret.features.semantic_result.bonus = 30
    /\ call.ret.match.score = 38
    /\ (15 * call.ret.features.industry_score + 15 * call.ret.features.signal_score
        + 10 * call.ret.features.size_score + 50 * call.ret.features.alignment_score) % 100 = 50

\* the tier that C12 gives to a score and to twice the combined confidence,
\* in hundredths
TierOf(score, twice_confidence) ==
    IF score >= 70 /\ twice_confidence >= 140 THEN "strong"
    ELSE IF score >= 45 \/ (score >= 30 /\ twice_confidence >= 100) THEN "good"
    ELSE "open"

\* C12: determine_tier classifies a score and the two confidences as stated,
\* and the tier of a Match is the classification of the score that the
\* Match carries and of the confidences of its two profiles.
C12_TierClassifiesScore ==
    /\ call.fn = "determine_tier" =>
          call.ret[1] = TierOf(call.args[1], call.args[2].confidence + call.args[3].confidence)
    /\ Scored =>
          LET m == call.ret.match
          IN  m.tier = TierOf(m.score, m.need_profile.confidence + m.capability_profile.confidence)

C12_Witness ==
    /\ call.fn = "determine_tier"
    /\ call.args[1] = 70
    /\ call.args[2].confidence + call.args[3].confidence = 140
    /\ call.ret[1] = "strong"

\* the bonus that C13 gives to an overlap of n tokens
BonusOf(n) == IF n >= 5 THEN 30 ELSE IF n >= 3 THEN 20 ELSE IF n >= 1 THEN 10 ELSE 0

\* C13: the semantic bonus is 30, 20, 10 or 0 by the band of the overlap
\* count and never decreases as the count grows; for a scored pair the count
\* is the size of the intersection of the two expanded token sets, and the
\* bonus enters the total with weight one before the cap of 100.
C13_BonusByOverlapBand ==
    /\ call.fn = "calculate_semantic_bonus" =>
          /\ call.ret = BonusOf(call.args[1])
          /\ \A k \in 0..call.args[1] : calculate_semantic_bonus(k) <= call.ret
    /\ Scored =>
          LET f == call.ret.features
              n == Cardinality(call.ret.expanded.demand \cap call.ret.expanded.supply)
              weighted == 15 * f.industry_score + 15 * f.signal_score + 10 * f.size_score
                             + 50 * f.alignment_score + 100
          IN  /\ f.semantic_result.overlapCount = n
              /\ f.semantic_result.bonus = BonusOf(n)
              /\ call.ret.match.score = RoundHalfEven(Min(10000, weighted + 100 * BonusOf(n)), 100)

C13_Witness ==
    /\ Scored
    /\ call.ret.features.semantic_result.overlapCount \in 3..4
    /\ call.ret.features.semantic_result.bonus = 20

\* the keyword families of C15 in their stated order, by branch
HiringFamilies ==
    <<"engineering", "sales", "marketing", "finance", "operations", "recruiting", "growth">>
NonHiringFamilies == <<"biotech", "healthcare", "tech", "fintech", "finance_co", "growth">>

\* the confidence of each family, in hundredths
FamilyConfidence ==
    [engineering |-> 90, sales |-> 90, marketing |-> 90, finance |-> 90, operations |-> 90,
     recruiting |-> 90, growth |-> 70, biotech |-> 85, healthcare |-> 80, tech |-> 80,
     fintech |-> 80, finance_co |-> 75]

\* the test of one family of the hiring branch on a demand record
HiringFamilyPasses(family, d) ==
    LET text == Lower(d.signal) \o " " \o Lower(d.title)
    IN  CASE family = "engineering" ->
                /\ \/ HasAny({"engineer", "developer", "devops", "backend", "frontend",
                              "fullstack", "data scientist"}, text)
                   \/ HasB("software", text, TRUE, TRUE)
                   \/ HasB("ml", text, FALSE, TRUE)
                   \/ HasB("ai", text, FALSE, TRUE)
                /\ ~Has("recruit", text)
          [] family = "sales" ->
                \/ HasAnyWord({"sales", "ae", "sdr", "bdr"}, text)
                \/ HasAny({"account executive", "revenue", "business development", "closer"}, text)
          [] family = "marketing" ->
                \/ HasAny({"marketing", "growth", "brand", "content", "paid", "demand gen", "gtm"},
                          text)
                \/ HasB("seo", text, TRUE, TRUE)
          [] family = "finance" ->
                \/ HasAnyWord({"finance", "cfo"}, text)
                \/ HasAny({"accounting", "controller", "fp&a", "bookkeep"}, text)
          [] family = "operations" ->
                \/ HasAny({"operations", "chief operating", "supply chain", "logistics"}, text)
                \/ HasAnyWord({"ops", "coo"}, text)
          [] family = "recruiting" ->
                \/ HasAny({"recruiter", "talent", "human resources", "people ops"}, text)
                \/ HasB("hr", text, TRUE, TRUE)
          [] family = "growth" ->
                \/ d.company_funding # ""
                \/ HasAny({"raised", "funding", "series", "seed", "round"},
                          text \o " " \o Lower(d.company_description))

\* the test of one family of the non-hiring branch on a demand record
NonHiringFamilyPasses(family, d) ==
    LET text == Lower(IndustryString(d.industry)) \o " " \o Lower(d.company) \o " " \o Lower(d.company_description)
    IN  CASE family = "biotech" ->
                HasAny({"biotech", "pharma", "therapeutic", "clinical", "life science", "drug",
                        "medical device", "biopharma"}, text)
          [] family = "healthcare" ->
                /\ HasAny({"health", "medical", "hospital", "patient", "clinic"}, text)
                /\ ~HasAny({"biotech", "pharma"}, text)
          [] family = "tech" ->
                /\ \/ HasB("software", text, TRUE, TRUE)
                   \/ HasB("cloud", text, TRUE, TRUE)
                   \/ HasAny({"saas", "platform", "digital", "ai company", "tech company"}, text)
                /\ ~HasAny({"biotech", "fintech", "healthtech"}, text)
          [] family = "fintech" -> HasAny({"fintech", "financial technology"}, text)
          [] family = "finance_co" ->
                /\ HasAny({"financ", "banking", "insurance", "invest", "capital", "asset"}, text)
                /\ ~Has("fintech", text)
          [] family = "growth" ->
                \/ d.company_funding # ""
                \/ HasAny({"raised", "funding", "series", "seed", "round"},
                          Lower(d.company_description))

\* the positions in the order of a branch of the families that a record passes
PassingFamilies(d) ==
    IF is_hiring_data(d)
    THEN {k \in 1..Len(HiringFamilies) : HiringFamilyPasses(HiringFamilies[k], d)}
    ELSE {k \in 1..Len(NonHiringFamilies) : NonHiringFamilyPasses(NonHiringFamilies[k], d)}

FirstOf(positions) == CHOOSE k \in positions : \A other \in positions : k <= other

ProviderCategories == <<"recruiting", "marketing", "engineering", "consulting", "fractional">>
ContactCategories ==
    <<"biotech_contact", "healthcare_contact", "tech_contact", "finance_contact",
      "bd_professional", "executive">>

\* the text that the tests of extract_capability_from_supply search; the
\* first industry of a list, nothing when there is none
CapabilityText(s) ==
    Lower(s.company_description) \o " " \o Lower(s.title) \o " " \o Lower(s.company) \o " "
    \o (IF s.industry.items = <<>> THEN "" ELSE Lower(s.industry.items[1]))

\* the test of one service provider on a supply record
ProviderTestPasses(category, s) ==
    LET text == CapabilityText(s)
    IN  CASE category = "recruiting" ->
                HasAny({"recruit", "staffing", "talent acquisition", "headhunt", "placement",
                        "hiring agency", "staffing agency"}, text)
          [] category = "marketing" ->
                HasAny({"marketing agency", "ad agency", "advertising agency", "creative agency",
                        "pr agency"}, text)
          [] category = "engineering" ->
                HasAny({"dev shop", "development agency", "software agency",
                        "software consultancy", "app development"}, text)
          [] category = "consulting" ->
                HasAny({"consulting firm", "advisory firm", "management consulting",
                        "strategy consulting", "consultancy"}, text)
          [] category = "fractional" ->
                HasAny({"fractional", "interim", "outsourced cfo", "outsourced coo",
                        "part-time executive"}, text)

\* the test of one contact category on a supply record
ContactTestPasses(category, s) ==
    LET text == CapabilityText(s)
        title == Lower(s.title)
    IN  CASE category = "biotech_contact" ->
                HasAny({"biotech", "pharma", "therapeutic", "clinical", "life science",
                        "biopharma"}, text)
          [] category = "healthcare_contact" ->
                /\ HasAny({"health", "medical", "hospital"}, text)
                /\ ~HasAny({"biotech", "pharma"}, text)
          [] category = "tech_contact" ->
                /\ \/ HasB("software", text, TRUE, TRUE)
                   \/ HasB("cloud", text, TRUE, TRUE)
                   \/ HasAny({"saas", "platform"}, text)
                /\ ~HasAny({"agency", "shop", "development company", "consultancy"}, text)
          [] category = "finance_contact" ->
                /\ HasAny({"financ", "banking", "investment", "capital"}, text)
                /\ ~Has("recruit", text)
          [] category = "bd_professional" ->
                \/ HasAny({"business development", "licensing", "partnerships"}, title)
                \/ HasB("bd", title, FALSE, TRUE)
          [] category = "executive" ->
                HasAny({"ceo", "cto", "cfo", "coo", "founder", "co-founder", "president", "chief"},
                       title)

PassingProviders(s) ==
    {k \in 1..Len(ProviderCategories) : ProviderTestPasses(ProviderCategories[k], s)}
PassingContacts(s) ==
    {k \in 1..Len(ContactCategories) : ContactTestPasses(ContactCategories[k], s)}

\* C16: extract_capability_from_supply returns, for every supply record,
\* a profile: of the first service provider whose test passes; when none
\* passes, of the first contact category whose test passes; when nothing
\* passes, 'professional' with confidence 0.3 and source none.
C16_CapabilityIsFirstPassingTest ==
    call.fn = "extract_capability_from_supply" =>
        LET s == call.args[1]
            capability == call.ret
        IN  /\ DOMAIN capability = {"category", "specifics", "confidence", "source"}
            /\ IF PassingProviders(s) # {}
               THEN capability.category = ProviderCategories[FirstOf(PassingProviders(s))]
               ELSE IF PassingContacts(s) # {}
               THEN capability.category = ContactCategories[FirstOf(PassingContacts(s))]
               ELSE /\ capability.category = "professional"
                    /\ capability.confidence = 30
                    /\ capability.source = "none"

\* the claim of C16 on the records whose industry is not the empty list
C16_CascadeWhenIndustryIsPresent ==
    (call.fn = "extract_capability_from_supply" /\ call.args[1].industry.items # <<>>)
        => C16_CapabilityIsFirstPassingTest

\* the needs that C17 calls hiring-type
HiringTypeNeeds == {"engineering", "sales", "marketing", "finance", "operations", "recruiting"}

\* the demand of the scenario of an engineering need
EngineeringDemand == HiringRecord("Hiring: Senior Software Engineer", "")

\* C17: score_alignment returns 45 for the capability 'recruiting' against
\* every hiring-type need, and a supply record described as a recruiting
\* agency for engineers is classified 'recruiting' and scores 45 against
\* the engineering need of the scenario.
C17_RecruitingAgainstHiringNeedIs45 ==
    /\ (/\ call.fn = "score_alignment"
        /\ call.args[2].category = "recruiting"
        /\ call.args[1].category \in HiringTypeNeeds) => call.ret = 45
    /\ (/\ call.fn = "extract_capability_from_supply"
        /\ call.args[1].company_description = "recruiting agency for engineers"
        /\ call.args[1].industry.items # <<>>) =>
            /\ call.ret.category = "recruiting"
            /\ extract_need_from_demand(EngineeringDemand).category = "engineering"
            /\ score_alignment(extract_need_from_demand(EngineeringDemand), call.ret) = 45

C17_Witness ==
    /\ call.fn = "score_alignment"
    /\ call.args[1].category = "finance"
    /\ call.args[2].category = "recruiting"
    /\ call.ret = 45

\* an industry is missing: the empty string or the empty list
IndustryMissing(v) == v.items = <<>> \/ (~v.is_list /\ v.items[1] = "")

\* both names hold a term of one of the six groups of related industries
SameRelatedGroup(a, b) ==
    \E g \in 1..Len(related_groups) :
        /\ \E term \in related_groups[g] : Has(term, a)
        /\ \E term \in related_groups[g] : Has(term, b)

\* C18: score_industry returns 10 when an industry is missing; otherwise,
\* on the lower-cased first industry of each side, 30 when they are equal,
\* else 20 when one is a substring of the other, else 15 when both hold a
\* term of one related group, else 5; the result is one of 5, 10, 15, 20, 30.
C18_IndustryScoreByCase ==
    call.fn = "score_industry" =>
        /\ call.ret \in {5, 10, 15, 20, 30}
        /\ IF IndustryMissing(call.args[1]) \/ IndustryMissing(call.args[2])
           THEN call.ret = 10
           ELSE LET a == Lower(call.args[1].items[1])
                    b == Lower(call.args[2].items[1])
                IN  call.ret = IF a = b THEN 30
                               ELSE IF Has(a, b) \/ Has(b, a) THEN 20
                               ELSE IF SameRelatedGroup(a, b) THEN 15
                               ELSE 5

\* a list whose first industry equals the other side's but for the case
C18_Witness ==
    /\ call.fn = "score_industry"
    /\ call.args[1] = List(<<"Software", "Retail">>)
    /\ call.args[2] = Str("software")
    /\ call.ret = 30

\* the keywords whose presence classifies a supply record as 'recruiting'
RecruitingKeywords ==
    {"recruit", "staffing", "talent acquisition", "headhunt", "placement", "hiring agency",
     "staffing agency"}

\* C19: a supply record classified 'recruiting' gets its confidence and
\* its source from the field that holds a recruiting keyword: 0.95 and
\* 'description' for the description, else 0.85 and 'title' for the title,
\* else 0.7 and 'company_name' for the company name.
C19_RecruitingSourceIsKeywordField ==
    (/\ call.fn = "extract_capability_from_supply"
     /\ call.args[1].industry.items # <<>>
     /\ call.ret.category = "recruiting") =>
        LET s == call.args[1]
        IN  IF HasAny(RecruitingKeywords, Lower(s.company_description))
            THEN call.ret.confidence = 95 /\ call.ret.source = "description"
            ELSE IF HasAny(RecruitingKeywords, Lower(s.title))
            THEN call.ret.confidence = 85 /\ call.ret.source = "title"
            ELSE HasAny(RecruitingKeywords, Lower(s.company))
                    => call.ret.confidence = 70 /\ call.ret.source = "company_name"

\* the capabilities that C20 calls generic
GenericCapabilities == {"general", "professional"}

\* C20: for a need of category 'growth' score_alignment returns 40 against
\* marketing or recruiting, 35 against consulting or fractional, 15 against
\* a generic capability and 25 against any other capability.
C20_GrowthNeedAlignment ==
    (call.fn = "score_alignment" /\ call.args[1].category = "growth") =>
        LET cap_cat == call.args[2].category
        IN  call.ret = IF cap_cat \in {"marketing", "recruiting"} THEN 40
                       ELSE IF cap_cat \in {"consulting", "fractional"} THEN 35
                       ELSE IF cap_cat \in GenericCapabilities THEN 15
                       ELSE 25

\* the cross-functional pairs of C21: the capabilities paired with a need
CrossFunctionalPairs ==
    [engineering |-> {"recruiting", "consulting"}, sales |-> {"marketing", "recruiting"},
     marketing |-> {"sales", "growth"}, finance |-> {"consulting", "fractional"}]

\* C21: score_alignment returns 25 for each cross-functional pair of a
\* need category and a capability category.
C21_CrossFunctionalPairIs25 ==
    (/\ call.fn = "score_alignment"
     /\ call.args[1].category \in DOMAIN CrossFunctionalPairs
     /\ call.args[2].category \in CrossFunctionalPairs[call.args[1].category]) => call.ret = 25

\* the pairs of C21 that no earlier rule of score_alignment decides
C21_PairsReachingTheTable ==
    (/\ call.fn = "score_alignment"
     /\ <<call.args[1].category, call.args[2].category>> \in
            {<<"engineering", "consulting">>, <<"sales", "marketing">>, <<"marketing", "sales">>,
             <<"marketing", "growth">>, <<"finance", "consulting">>}) => call.ret = 25

\* the ambiguous terms and the two families of context words of C22
AmbiguousTerms == {"engineering", "engineer", "engineers", "sales", "marketing", "growth"}
HiringContextWords ==
    {"hire", "hiring", "team", "headcount", "recruit", "talent", "staffing", "placement"}
RecruitingContextWords ==
    {"recruit", "recruiting", "staffing", "talent", "headhunt", "placement", "sourcing"}

\* the text holds a word of the family, as a whole word
HasContext(family, text) == HasAnyWord(family, Lower(text))

\* the resolution that C22 gives to an ambiguous term
ResolutionOf(side, text) ==
    IF side = "demand" /\ HasContext(HiringContextWords, text) THEN "need"
    ELSE IF side = "supply" /\ HasContext(RecruitingContextWords, text) THEN "capability"
    ELSE "none"

\* C22: for an ambiguous term resolve_ambiguous_term returns 'need' only
\* on the demand side with a hiring-context word in the text, 'capability'
\* only on the supply side with a recruiting-context word in the text, and
\* no resolution in every other case.
C22_ResolutionByContext ==
    (call.fn = "resolve_ambiguous_term" /\ Lower(call.args[1]) \in AmbiguousTerms) =>
        call.ret = ResolutionOf(call.args[2], call.args[3])

\* the claim of C22 for the terms other than growth
C22_ResolutionOfTermsButGrowth ==
    (call.fn = "resolve_ambiguous_term" /\ Lower(call.args[1]) \in AmbiguousTerms \ {"growth"}) =>
        call.ret = ResolutionOf(call.args[2], call.args[3])

\* the context that lets an ambiguous term expand is absent from the text
NoContextFor(side, text) ==
    IF side = "demand" THEN ~HasContext(HiringContextWords, text)
    ELSE ~HasContext(RecruitingContextWords, text)

\* the tokens without the occurrences of one term
TokensWithout(tokens, term) == SelectSeq(tokens, LAMBDA token : Lower(token) # term)

\* C23: an ambiguous term in a text without hiring context on the demand
\* side, or without recruiting context on the supply side, adds nothing to
\* the expanded set but itself: the set is the one of the other tokens of
\* the same text, with the term.
C23_UngatedTermAddsNothing ==
    (call.fn = "expand_semantic_signals" /\ NoContextFor(call.args[2], call.args[3])) =>
        \A term \in call.ret.base \cap AmbiguousTerms :
            call.ret.expanded =
                expand_semantic_signals(TokensWithout(call.args[1], term), call.args[2],
                                        call.args[3]).expanded \cup {term}

\* the claim of C23 on the supply side, for the terms other than growth
C23_UngatedSupplyTermAddsNothing ==
    (/\ call.fn = "expand_semantic_signals"
     /\ call.args[2] = "supply"
     /\ NoContextFor(call.args[2], call.args[3])) =>
        \A term \in (call.ret.base \cap AmbiguousTerms) \ {"growth"} :
            call.ret.expanded =
                expand_semantic_signals(TokensWithout(call.args[1], term), call.args[2],
                                        call.args[3]).expanded \cup {term}

\* the integer that C24 reads from each size of SizeValues: its digits in
\* a row, 50 when it has none
DigitsRead ==
    {<<"0", 0>>, <<"1", 1>>, <<"2", 2>>, <<"5", 5>>, <<"10", 10>>, <<"11", 11>>, <<"50", 50>>,
     <<"51", 51>>, <<"200", 200>>, <<"501", 501>>, <<"n/a", 50>>, <<"11-50", 1150>>,
     <<"1,000+", 1000>>}

SizeRead(size) == (CHOOSE pair \in DigitsRead : pair[1] = size)[2]

\* the score that C24 gives to the ratio n / m, m > 0
RatioScore(n, m) ==
    IF 2 * n >= m /\ n <= 5 * m THEN 20
    ELSE IF 5 * n >= m /\ n <= 10 * m THEN 15
    ELSE 5

\* C24: score_size returns 10 when a size is missing; otherwise, with the
\* integers read from the digits of each side (50 when there is none) and
\* the ratio of the demand's to the larger of the supply's and 1, it
\* returns 20 for a ratio in [0.5, 5], else 15 for a ratio in [0.2, 10],
\* else 5; the denominator is never zero.
C24_SizeScoreByRatio ==
    call.fn = "score_size" =>
        IF call.args[1] = "" \/ call.args[2] = ""
        THEN call.ret = 10
        ELSE LET n == SizeRead(call.args[1])
                 m == Max(SizeRead(call.args[2]), 1)
             IN  m > 0 /\ call.ret = RatioScore(n, m)

\* a supply size that reads 0
C24_Witness ==
    /\ call.fn = "score_size"
    /\ call.args[1] = "2"
    /\ call.args[2] = "0"
    /\ call.ret = 20

\* the bounds that C27 gives for the feature scores and the semantic bonus
FeatureBounds ==
    [industry |-> 5..30, signal |-> 5..40, size |-> 5..20, alignment |-> 5..50,
     semantic_bonus |-> 0..30]

\* round() of the blend of the feature scores, before the cap and the floor
UncappedScore(f) ==
    RoundHalfEven(BlendTwentieths(f.industry_score, f.signal_score, f.size_score,
                                  f.alignment_score, f.semantic_result.bonus), 20)

\* C27: the score that score_match gives to a pair lies between 6 and 69.
\* The feature scores and the bonus are bounded (industry 5..30, signal
\* 5..40, size 5..20, alignment 5..50, bonus 0..30), in score_match and in
\* the functions called on their own, so that the rounded blend is the
\* score: the cap of 100 and the floor of 1 change nothing, no Match has the
\* tier 'strong', and the pair passes every min_score from 0 to 6.
C27_ScoreBetween6And69 ==
    /\ \A feature \in DOMAIN FeatureBounds : FeatureScores[feature] \subseteq FeatureBounds[feature]
    /\ PossibleScores \subseteq 6..69
    /\ call.fn = "score_industry" => call.ret \in FeatureBounds.industry
    /\ call.fn = "score_size" => call.ret \in FeatureBounds.size
    /\ call.fn = "score_alignment" => call.ret \in FeatureBounds.alignment
    /\ call.fn = "calculate_semantic_bonus" => call.ret \in FeatureBounds.semantic_bonus
    /\ Scored =>
          LET f == call.ret.features
              m == call.ret.match
          IN  /\ f.industry_score \in FeatureScores.industry
              /\ f.signal_score \in FeatureScores.signal
              /\ f.size_score \in FeatureScores.size
              /\ f.alignment_score \in FeatureScores.alignment
              /\ f.semantic_result.bonus \in FeatureScores.semantic_bonus
              /\ m.score \in 6..69
              /\ m.score = UncappedScore(f)
              /\ m.tier # "strong"
              /\ \A threshold \in 0..6 : Passes(m, threshold)

\* score_match has given a pair the lowest score, from the lowest feature
\* scores and no bonus
C27_Witness ==
    /\ Scored
    /\ call.ret.match.score = 6
    /\ call.ret.features.industry_score = 5
    /\ call.ret.features.signal_score = 5
    /\ call.ret.features.size_score = 5
    /\ call.ret.features.alignment_score = 5
    /\ call.ret.features.semantic_result.bonus = 0

(***************************************************************************)
(* Properties of enrich_record.                                            *)
(***************************************************************************)
\* enrich_record has come to its loop over the providers
InWaterfall == enrichment.pc \in {"waterfall", "after_loop", "returned", "raised"}
                  /\ classify_inputs(enrichment.original) \in FindActions
                  /\ enrichment.cached_result = NoResult

\* the names of the providers that have a key, in the order of their priority
KeyedProviders ==
    LET keyed == SelectSeq(Providers, LAMBDA provider : provider.api_key # "")
    IN  [k \in 1..Len(keyed) |-> keyed[k].name]

\* the k-th call of a provider returned a result of one of the outcomes
CallReturned(k, outcomes) ==
    /\ enrichment.provider_calls[k].raised = ""
    /\ enrichment.provider_calls[k].returned.outcome \in outcomes

\* C29: in the waterfall of enrich_record for a FIND or SEARCH action with
\* no cache hit, the providers called are those that have a key, in the
\* order of their priority, and no call follows one that returned ENRICHED,
\* AUTH_ERROR or CREDITS_EXHAUSTED.  When enrich_record returns, a provider
\* with a key was left out only after such a call; after ENRICHED the result
\* of that provider is returned, its email is the email of the record, its
\* name and title are in the record where it has them, and the record and
\* the result are stored in the cache; otherwise the outcome is NOT_FOUND,
\* nothing is stored and the record is as it was, its email with it.
C29_WaterfallStopsAtFirstEndingOutcome ==
    InWaterfall =>
        LET calls == enrichment.provider_calls
            last == calls[Len(calls)]
        IN  /\ Len(calls) <= Len(KeyedProviders)
            /\ \A k \in 1..Len(calls) : calls[k].provider = KeyedProviders[k]
            /\ \A k \in 1..(Len(calls) - 1) :
                  ~CallReturned(k, {"ENRICHED", "AUTH_ERROR", "CREDITS_EXHAUSTED"})
            /\ enrichment.pc = "returned" =>
                  /\ Len(calls) < Len(KeyedProviders) =>
                        /\ calls # <<>>
                        /\ CallReturned(Len(calls), {"ENRICHED", "AUTH_ERROR", "CREDITS_EXHAUSTED"})
                  /\ IF calls # <<>> /\ CallReturned(Len(calls), {"ENRICHED"})
                     THEN /\ enrichment.result = last.returned
                          /\ enrichment.record.email = last.returned.email
                          /\ enrichment.record = CopyToRecord(enrichment.original, last.returned)
                          /\ enrichment.cache
                               = <<[record |-> enrichment.record, result |-> last.returned]>>
                     ELSE /\ enrichment.result.outcome = "NOT_FOUND"
                          /\ enrichment.record = enrichment.original
                          /\ enrichment.record.email = ""
                          /\ enrichment.cache = <<>>

\* a provider without a key was passed over, the next one returned
\* AUTH_ERROR, and enrich_record returned NOT_FOUND without a call of the
\* provider with a key that comes after it
C29_Witness ==
    /\ InWaterfall
    /\ enrichment.pc = "returned"
    /\ Len(Providers) > Len(KeyedProviders)
    /\ Len(enrichment.provider_calls) = 1
    /\ Len(KeyedProviders) = 2
    /\ CallReturned(1, {"AUTH_ERROR"})
    /\ enrichment.result.outcome = "NOT_FOUND"

(***************************************************************************)
(* Properties of SimpleRateLimiter.                                        *)
(***************************************************************************)
\* in_flight and tokens are within their bounds
LimiterInBounds ==
    /\ 0 <= limiter.in_flight
    /\ limiter.in_flight <= limiter.max_concurrent
    /\ limiter.tokens >= 0

\* a step in which wait_for_token returns: some refill has brought the
\* bucket to one token at least, one whole token is taken from it, and
\* in_flight was below max_concurrent and is one more
WaitReturns ==
    (limiter.pc = "wait_for_token" /\ limiter'.pc = "idle") =>
        /\ limiter.in_flight < limiter.max_concurrent
        /\ limiter'.in_flight = limiter.in_flight + 1
        /\ \E refill \in 0..Capacity(limiter) :
              /\ Refilled(limiter, refill) >= TokenParts
              /\ limiter'.tokens = Refilled(limiter, refill) - TokenParts

\* a step of release or drain: release takes one from in_flight unless it
\* is 0 and leaves tokens alone, drain sets tokens to 0 and leaves in_flight
\* alone
ReleaseOrDrain ==
    (limiter.pc = "idle" /\ limiter'.pc = "idle") =>
        /\ limiter'.last_call = "release" =>
              /\ limiter'.in_flight = (IF limiter.in_flight = 0 THEN 0 ELSE limiter.in_flight - 1)
              /\ limiter'.in_flight >= 0
              /\ limiter'.tokens = limiter.tokens
        /\ limiter'.last_call = "drain" =>
              /\ limiter'.tokens = 0
              /\ limiter'.in_flight = limiter.in_flight
        /\ limiter'.last_call \in {"release", "drain"}

=============================================================================
